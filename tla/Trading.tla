------------------------------ MODULE Trading ------------------------------
(***************************************************************************)
(* A strategy, the trader service of one account with the simulated broker *)
(* behind it, and the strategy's book.  Orders, batches and cancels go     *)
(* through the strategy's journal to the trader, orders and trades come    *)
(* back through the trader's; the book freezes cash and volume when an     *)
(* order is sent and releases them as the answers come.                    *)
(*                                                                         *)
(* The trader process crashes, also in the middle of a handler, and is     *)
(* started again; the strategy stays up.  All orders are limit orders for  *)
(* one stock without fees, and frames are handed over in order (module     *)
(* MergeReader).  Requests the simulated broker answers with nothing       *)
(* (AssetRequest and the like) are left out.                               *)
(***************************************************************************)
EXTENDS Integers, Sequences, FiniteSets, FiniteSetsExt, SequencesExt

CONSTANTS MatchModes,   \* values of match_mode in the broker's configuration
          MinVolume,    \* get_min_volume
          Requests,     \* the orders a strategy may ask for: side, price, volume, with a block or not
          Holding,      \* the position at the start, all of it from yesterday
          EagerCancel,  \* does the strategy cancel orders it has no answer for?
          MaxOrders,    \* bound: orders sent
          MaxBatches,   \* bound: batches
          MaxCrash      \* bound: crashes of the trader

ASSUME TradingAssumption ==
  /\ MatchModes \subseteq {"reject", "pend", "cancel", "partialfillandcancel", "partialfill",
                           "fill", "multiple_transactions"}
  /\ MinVolume \in Nat \ {0} /\ Holding \in Nat /\ EagerCancel \in BOOLEAN
  /\ \A r \in Requests : /\ r.side \in {"Buy", "Sell"} /\ r.price \in Nat
                         /\ r.volume \in Nat \ {0} /\ r.block \in BOOLEAN
  /\ MaxOrders \in Nat /\ MaxBatches \in Nat /\ MaxCrash \in Nat

VARIABLES
  inbox,     \* the strategy's journal to the trader
  outbox,    \* the trader's journal to the strategy
  \* trader
  td,        \* "down", "boot" (not told to start yet) or "ready"
  mode,      \* TraderSim::match_mode_, from a configuration nobody edits
  linked,    \* the trader has joined the strategy's journal and has a writer to it
  tpos,      \* how far the trader has read inbox
  recovered, \* Trader::orders_: what recover() found, never touched again
  orders,    \* TraderSim::orders_, which hides Trader::orders_
  batch,     \* batch_status_ of the strategy
  inputs,    \* order_inputs_ of the strategy
  blocked,   \* has the BlockMessage arrived?  (block_messages_)
  crashes,
  \* strategy
  writer,    \* has_writer(trader)
  ready,     \* Client::is_ready: "no", "due" (written, not read yet) or "yes"
  lost,      \* the trader died and its Deregister has not been handled yet
  inBatch,   \* inside insert_batch_orders
  batches,
  spos,      \* how far the strategy has read outbox
  book,      \* Book: asset, long position and orders
  \* history
  torn,      \* orders whose trades a crash cut off
  missed     \* unanswered orders of a trader that met the strategy after its recovery

wire     == <<inbox, outbox>>
memory   == <<mode, linked, tpos, recovered, orders, batch, inputs, blocked>>
strategy == <<writer, inBatch, batches, spos, book>>
history  == <<torn, missed>>
vars     == <<wire, td, memory, crashes, strategy, ready, lost, history>>

NoOrders == << >>

Init ==
  /\ inbox = << >> /\ outbox = << >>
  /\ td = "down" /\ mode \in MatchModes /\ linked = FALSE /\ tpos = 0
  /\ recovered = NoOrders /\ orders = NoOrders
  /\ batch = FALSE /\ inputs = << >> /\ blocked = FALSE /\ crashes = 0
  /\ writer = FALSE /\ ready = "no" /\ lost = FALSE /\ inBatch = FALSE /\ batches = 0
  /\ spos = 0
  /\ book = [avail |-> 0, frozen_cash |-> 0, volume |-> Holding, yesterday |-> Holding,
             frozen_total |-> 0, frozen_yesterday |-> 0, orders |-> NoOrders]
  /\ torn = {} /\ missed = {}

----------------------------------------------------------------------------
(* frames *)

OrderInput(i, r) ==
  [type |-> "OrderInput", id |-> i, side |-> r.side, price |-> r.price, volume |-> r.volume, block |-> r.block]

Mark(type) == [type |-> type]

OrderAction(i) == [type |-> "OrderAction", id |-> i]

\* order_from_input, with the status, volume_left and external_order_id set afterwards
Order(in, status, left, external) ==
  [type |-> "Order", id |-> in.id, side |-> in.side, price |-> in.price, volume |-> in.volume,
   status |-> status, left |-> left, external |-> external]

Trade(in, volume) ==
  [type |-> "Trade", id |-> in.id, side |-> in.side, price |-> in.price, volume |-> volume]

is_final_status(status) == status \notin {"Submitted", "Pending", "PartialFilledActive", "Unknown"}

Put(f, i, x) == [k \in DOMAIN f \cup {i} |-> IF k = i THEN x ELSE f[k]]

\* the orders of a journal, by id, as last reported
LatestOrders(log) ==
  LET at == {k \in DOMAIN log : log[k].type = "Order"}
  IN  [i \in {log[k].id : k \in at} |-> log[Max({k \in at : log[k].id = i})]]

Sent == {inbox[k] : k \in {k \in DOMAIN inbox : inbox[k].type = "OrderInput"}}

----------------------------------------------------------------------------
(* TraderSim *)

\* mutant: every trade of a split order has the full minimum volume
SplitRoundedUp(v) == [k \in 1 .. (v + MinVolume - 1) \div MinVolume |-> MinVolume]

\* the volumes of the trades of match mode Multiple
Split(v) == [k \in 1 .. (v + MinVolume - 1) \div MinVolume |-> Min({MinVolume, v - (k - 1) * MinVolume})]

\* the switch of insert_order_
volume_traded(in) ==
  CASE mode \in {"reject", "pend", "cancel"} -> 0
    [] mode \in {"partialfillandcancel", "partialfill"} -> MinVolume
    [] mode \in {"fill", "multiple_transactions"} -> in.volume

Status(in) ==
  CASE mode = "reject" -> "Error"
    [] mode = "pend" -> "Pending"
    [] mode = "cancel" -> "Cancelled"
    [] mode = "partialfillandcancel" -> IF MinVolume = in.volume THEN "Filled" ELSE "PartialFilledNotActive"
    [] mode = "partialfill" -> IF MinVolume = in.volume THEN "Filled" ELSE "PartialFilledActive"
    [] OTHER -> "Filled"

Left(in) == in.volume - volume_traded(in)

TooSmall(in) == in.volume < MinVolume
NoBlock(in)  == in.block /\ ~blocked

\* an order that is entered in TraderSim::orders_
Accepted(in) == ~TooSmall(in) /\ ~NoBlock(in)

Trades(in) ==
  IF mode = "multiple_transactions" THEN [k \in DOMAIN Split(in.volume) |-> Trade(in, Split(in.volume)[k])]
  ELSE IF volume_traded(in) > 0 THEN <<Trade(in, volume_traded(in))>>
  ELSE << >>

\* insert_order_: the frames written.  An order whose block is unknown is refused after
\* volume_left was computed
insert_order_(in) ==
  IF TooSmall(in) THEN <<Order(in, "Error", in.volume, TRUE)>>
  ELSE IF NoBlock(in) THEN <<Order(in, "Error", Left(in), TRUE)>>
  ELSE <<Order(in, Status(in), Left(in), TRUE)>> \o Trades(in)

\* orders_ once the inputs in the set s have been inserted
Inserted(s) ==
  LET new == {Order(in, Status(in), Left(in), TRUE) : in \in {in \in s : Accepted(in)}}
  IN  [i \in DOMAIN orders \cup {o.id : o \in new} |->
         IF \E o \in new : o.id = i THEN CHOOSE o \in new : o.id = i ELSE orders[i]]

\* cancel_order: the frames written.  Only volume_left is looked at, not the status
cancel_order(i) ==
  IF i \in DOMAIN orders /\ orders[i].left # 0
  THEN <<[orders[i] EXCEPT !.status =
            IF orders[i].left = orders[i].volume THEN "Cancelled" ELSE "PartialFilledNotActive"]>>
  ELSE << >>

----------------------------------------------------------------------------
(* Trader *)

\* has_self_deal_risk.  It looks in Trader::orders_, so the only orders it ever meets are
\* those recover() found, as they were then
HasRisk(in) ==
  \E i \in DOMAIN recovered :
    LET o == recovered[i] IN
    /\ o.side # in.side
    /\ ~is_final_status(o.status)
    /\ ~(in.side = "Buy" /\ in.price < o.price)
    /\ ~(in.side = "Sell" /\ in.price > o.price)

\* what the handler of frame f writes to the strategy
Answer(f) ==
  CASE f.type = "OrderInput" /\ HasRisk(f) -> <<Order(f, "Error", f.volume, FALSE)>>
    [] f.type = "OrderInput" /\ ~HasRisk(f) -> IF batch THEN << >> ELSE insert_order_(f)
    [] f.type = "BatchOrderEnd" -> FlattenSeq([k \in DOMAIN inputs |-> insert_order_(inputs[k])])
    [] f.type = "OrderAction" -> cancel_order(f.id)
    [] OTHER -> << >>

\* deal_write_frame: orders that never got an external id are lost
IsLost(o) == ~is_final_status(o.status) /\ ~o.external

Found ==
  LET o == LatestOrders(outbox)
  IN  [i \in DOMAIN o |-> IF IsLost(o[i]) THEN [o[i] EXCEPT !.status = "Lost"] ELSE o[i]]

\* mutant: order inputs are reported lost whether or not they were answered
UnansweredAll == SelectSeq(inbox, LAMBDA f : f.type = "OrderInput")

\* deal_read_frame, frame by frame: the order inputs nothing was written for
Unanswered ==
  LET known == DOMAIN LatestOrders(outbox)
      found[k \in 0 .. Len(inbox)] ==
        IF k = 0 THEN << >>
        ELSE IF inbox[k].type = "OrderInput" /\ inbox[k].id \notin known THEN Append(found[k - 1], inbox[k])
        ELSE found[k - 1]
  IN  found[Len(inbox)]

\* mutant: only orders that have an Order frame are reported
RecoverFramesWritten ==
  SetToSeq({Found[i] : i \in {i \in DOMAIN Found : IsLost(LatestOrders(outbox)[i])}})

\* what recover() writes, if it has a writer
RecoverFrames ==
  LET lostOrders == {i \in DOMAIN Found : IsLost(LatestOrders(outbox)[i])}
  IN  SetToSeq({Found[i] : i \in lostOrders})
        \o [k \in DOMAIN Unanswered |-> Order(Unanswered[k], "Lost", Unanswered[k].volume, FALSE)]

----------------------------------------------------------------------------
(* Book and StockAccountingMethod *)

\* mutant: released volumes may go below zero
AtLeastAny(a) == a

AtLeastZero(a) == Max({a, 0})

apply_order_input(b, in) ==
  IF in.side = "Buy"
  THEN [b EXCEPT !.frozen_cash = @ + in.volume * in.price, !.avail = @ - in.volume * in.price]
  ELSE [b EXCEPT !.frozen_total = @ + in.volume,
                 !.frozen_yesterday = IF b.yesterday - @ >= in.volume THEN @ + in.volume ELSE b.yesterday]

get_frozen_price(b, i) == IF i \in DOMAIN b.orders THEN b.orders[i].price ELSE 0

\* mutant: nothing is released when an order ends
apply_order_keep(b, o) == [b EXCEPT !.orders = Put(@, o.id, o)]

\* apply_order, then Book::replace
apply_order(b, o) ==
  LET known == [b EXCEPT !.orders = Put(@, o.id, o)]
      frozen == o.left * get_frozen_price(known, o.id)
  IN  IF ~is_final_status(o.status) THEN known
      ELSE IF o.side = "Buy"
      THEN [known EXCEPT !.frozen_cash = @ - frozen, !.avail = @ + frozen]
      ELSE [known EXCEPT !.frozen_total = AtLeastZero(@ - o.left),
                         !.frozen_yesterday = AtLeastZero(@ - o.left)]

apply_buy(b, t) ==
  LET frozen == get_frozen_price(b, t.id) * t.volume
  IN  [b EXCEPT !.frozen_cash = @ - frozen, !.avail = @ + frozen - t.price * t.volume,
                !.volume = @ + t.volume]

apply_sell(b, t) ==
  [b EXCEPT !.frozen_total = AtLeastZero(@ - t.volume),
            !.frozen_yesterday = AtLeastZero(@ - t.volume),
            !.yesterday = AtLeastZero(@ - t.volume),
            !.volume = AtLeastZero(@ - t.volume),
            !.avail = @ + t.price * t.volume]

apply_trade(b, t) == IF t.side = "Buy" THEN apply_buy(b, t) ELSE apply_sell(b, t)

----------------------------------------------------------------------------
(* the strategy's steps *)

Write(f) == inbox' = Append(inbox, f)

\* insert_order
InsertOrder ==
  /\ ready = "yes"
  /\ Cardinality(Sent) < MaxOrders
  /\ \E r \in Requests :
       LET in == OrderInput(Cardinality(Sent) + 1, r)
       IN  /\ (inBatch => ~r.block)
           /\ Write(in)
           /\ book' = apply_order_input(book, in)
  /\ UNCHANGED <<outbox, td, memory, crashes, writer, inBatch, batches, spos, ready, lost, history>>

\* insert_block_message, at most once
InsertBlockMessage ==
  /\ ready = "yes" /\ ~inBatch /\ \E r \in Requests : r.block
  /\ \A k \in DOMAIN inbox : inbox[k].type # "BlockMessage"
  /\ Write(Mark("BlockMessage"))
  /\ UNCHANGED <<outbox, td, memory, crashes, strategy, ready, lost, history>>

\* insert_batch_orders writes the marks whether or not the trader is ready, and inserts the
\* orders one by one in between
BatchBegin ==
  /\ writer /\ ~inBatch /\ batches < MaxBatches
  /\ Write(Mark("BatchOrderBegin"))
  /\ inBatch' = TRUE /\ batches' = batches + 1
  /\ UNCHANGED <<outbox, td, memory, crashes, writer, spos, book, ready, lost, history>>

BatchEnd ==
  /\ inBatch
  /\ Write(Mark("BatchOrderEnd"))
  /\ inBatch' = FALSE
  /\ UNCHANGED <<outbox, td, memory, crashes, writer, batches, spos, book, ready, lost, history>>

\* cancel_order: an order the strategy believes open or, with EagerCancel, one it has heard
\* nothing of; once for each order
CancelOrder ==
  /\ ready = "yes" /\ ~inBatch
  /\ \E in \in Sent :
       /\ IF in.id \in DOMAIN book.orders THEN ~is_final_status(book.orders[in.id].status) ELSE EagerCancel
       /\ \A k \in DOMAIN inbox : inbox[k] # OrderAction(in.id)
       /\ Write(OrderAction(in.id))
  /\ UNCHANGED <<outbox, td, memory, crashes, strategy, ready, lost, history>>

\* the bookkeeper sees the next frame of the trader
ReadFrame ==
  /\ ~inBatch /\ spos < Len(outbox)
  /\ LET f == outbox[spos + 1]
     IN  book' = IF f.type = "Order" THEN apply_order(book, f) ELSE apply_trade(book, f)
  /\ spos' = spos + 1
  /\ UNCHANGED <<wire, td, memory, crashes, writer, inBatch, batches, ready, lost, history>>

\* update_broker_state, BrokerStateUpdate
SeeReady ==
  /\ ready = "due" /\ ~inBatch
  /\ ready' = "yes"
  /\ UNCHANGED <<wire, td, memory, crashes, strategy, lost, history>>

\* update_broker_state, Deregister: the last news of the dead trader.  The writer stays
SeeGone ==
  /\ lost /\ ~inBatch /\ spos = Len(outbox) /\ ready # "due"
  /\ lost' = FALSE /\ ready' = "no"
  /\ UNCHANGED <<wire, td, memory, crashes, strategy, history>>

----------------------------------------------------------------------------
(* the trader's steps *)

Boot ==
  /\ td = "down"
  /\ td' = "boot"
  /\ UNCHANGED <<wire, memory, crashes, strategy, ready, lost, history>>

\* the strategy has seen the trader's Register, Client::connect has asked the master and both
\* sides have their readers and writers: the trader reads from now on
Link ==
  /\ td # "down" /\ ~linked /\ ~lost /\ ~inBatch
  /\ linked' = TRUE /\ tpos' = Len(inbox)
  /\ writer' = TRUE
  /\ ready' = IF td = "ready" THEN "due" ELSE "no"
  /\ missed' = IF td = "ready" THEN missed \cup {Unanswered[k].id : k \in DOMAIN Unanswered} ELSE missed
  /\ UNCHANGED <<wire, td, mode, recovered, orders, batch, inputs, blocked, crashes, inBatch, batches,
                 spos, book, lost, torn>>

\* TraderVendor::on_start: recover, then TraderSim::on_start
Start ==
  /\ td = "boot"
  /\ td' = "ready"
  /\ recovered' = Found
  /\ outbox' = IF linked THEN outbox \o RecoverFrames ELSE outbox
  /\ ready' = IF linked THEN "due" ELSE ready
  /\ UNCHANGED <<inbox, mode, linked, tpos, orders, batch, inputs, blocked, crashes, strategy, lost, history>>

HasFrame == linked /\ tpos < Len(inbox)

\* a frame that comes before RequestStart has no handler yet
SkipFrame ==
  /\ td = "boot" /\ HasFrame
  /\ tpos' = tpos + 1
  /\ UNCHANGED <<wire, td, mode, linked, recovered, orders, batch, inputs, blocked, crashes, strategy,
                 ready, lost, history>>

\* the handler of the next frame
HandleFrame ==
  /\ td = "ready" /\ HasFrame
  /\ LET f == inbox[tpos + 1]
         queued == f.type = "OrderInput" /\ ~HasRisk(f) /\ batch
     IN  /\ outbox' = outbox \o Answer(f)
         /\ orders' = CASE f.type = "OrderInput" /\ ~HasRisk(f) /\ ~batch -> Inserted({f})
                        [] f.type = "BatchOrderEnd" -> Inserted(ToSet(inputs))
                        [] f.type = "OrderAction" -> [i \in DOMAIN orders \ {f.id} |-> orders[i]]
                        [] OTHER -> orders
         /\ batch' = (f.type = "BatchOrderBegin" \/ (batch /\ f.type # "BatchOrderEnd"))
         /\ inputs' = IF queued THEN Append(inputs, f)
                      ELSE IF f.type = "BatchOrderEnd" THEN << >> ELSE inputs
         /\ blocked' = (blocked \/ f.type = "BlockMessage")
  /\ tpos' = tpos + 1
  /\ UNCHANGED <<inbox, td, mode, linked, recovered, crashes, strategy, ready, lost, history>>

\* what the process is about to write
Writing ==
  IF td = "ready" /\ HasFrame THEN Answer(inbox[tpos + 1])
  ELSE IF td = "boot" /\ linked THEN RecoverFrames
  ELSE << >>

\* the process dies, with the first n of the frames of its present handler written
Crash ==
  /\ td # "down" /\ crashes < MaxCrash
  /\ \E n \in 0 .. Max({0, Len(Writing) - 1}) :
       /\ outbox' = outbox \o SubSeq(Writing, 1, n)
       /\ torn' = torn \cup {Writing[k].id : k \in {k \in 1 .. n : \E j \in n + 1 .. Len(Writing) :
                                                      Writing[j].id = Writing[k].id}}
  /\ td' = "down" /\ crashes' = crashes + 1 /\ lost' = TRUE
  /\ linked' = FALSE /\ tpos' = 0 /\ recovered' = NoOrders /\ orders' = NoOrders
  /\ batch' = FALSE /\ inputs' = << >> /\ blocked' = FALSE
  /\ UNCHANGED <<inbox, mode, strategy, ready, missed>>

Next ==
  \/ InsertOrder \/ InsertBlockMessage \/ BatchBegin \/ BatchEnd \/ CancelOrder
  \/ ReadFrame \/ SeeReady \/ SeeGone
  \/ Boot \/ Link \/ Start \/ SkipFrame \/ HandleFrame \/ Crash

\* every process that runs goes on running, a call that was begun returns and the trader is
\* started again; what the strategy does next and when the trader dies is nobody's duty
Fairness ==
  /\ WF_vars(BatchEnd) /\ WF_vars(ReadFrame) /\ WF_vars(SeeReady) /\ WF_vars(SeeGone)
  /\ WF_vars(Boot) /\ WF_vars(Link) /\ WF_vars(Start) /\ WF_vars(SkipFrame) /\ WF_vars(HandleFrame)

Spec == Init /\ [][Next]_vars /\ Fairness

----------------------------------------------------------------------------
(* properties *)

Ids == 1 .. MaxOrders

Statuses == {"Pending", "Cancelled", "Error", "Filled", "PartialFilledNotActive", "PartialFilledActive", "Lost"}

OrderType == [type : {"Order"}, id : Ids, side : {"Buy", "Sell"}, price : Nat, volume : Nat,
              status : Statuses, left : Nat, external : BOOLEAN]

\* Every variable keeps its type; volumes that are released never go below zero.
TypeOK ==
  /\ \A k \in DOMAIN outbox :
       outbox[k] \in OrderType \cup [type : {"Trade"}, id : Ids, side : {"Buy", "Sell"}, price : Nat,
                                     volume : Nat \ {0}]
  /\ \A k \in DOMAIN inbox : inbox[k].type \in {"OrderInput", "OrderAction", "BlockMessage",
                                                "BatchOrderBegin", "BatchOrderEnd"}
  /\ td \in {"down", "boot", "ready"} /\ mode \in MatchModes
  /\ tpos \in 0 .. Len(inbox) /\ spos \in 0 .. Len(outbox)
  /\ \A i \in DOMAIN recovered : recovered[i] \in OrderType
  /\ \A i \in DOMAIN orders : orders[i] \in OrderType
  /\ ready \in {"no", "due", "yes"} /\ torn \subseteq Ids /\ missed \subseteq Ids
  /\ book.avail \in Int /\ book.frozen_cash \in Nat
  /\ {book.volume, book.yesterday, book.frozen_total, book.frozen_yesterday} \subseteq Nat

\* Once an order has been reported in a final status nothing more is reported of it, whatever is
\* cancelled, batched, lost in a crash or recovered (cancel_order, recover, insert_order_).
FinalStays ==
  \A j, k \in DOMAIN outbox :
    (/\ j < k /\ outbox[j].type = "Order" /\ outbox[k].type = "Order"
     /\ outbox[j].id = outbox[k].id)
    => ~is_final_status(outbox[j].status)

Total(s) == LET total[k \in 0 .. Len(s)] == IF k = 0 THEN 0 ELSE total[k - 1] + s[k] IN total[Len(s)]

Traded(i) ==
  Total([k \in 1 .. Len(outbox) |->
           IF outbox[k].type = "Trade" /\ outbox[k].id = i THEN outbox[k].volume ELSE 0])

\* refused for want of its block message, with volume_left already reduced
Refused(in) ==
  /\ in.block /\ in.id \in DOMAIN LatestOrders(outbox)
  /\ LatestOrders(outbox)[in.id].status = "Error" /\ in.volume >= MinVolume

\* The trades of an order and its volume_left add up to its volume, in every match mode and after
\* cancels and recoveries, unless a crash cut the trades off or the block was unknown.
TradesAddUp ==
  \A in \in Sent :
    LET o == LatestOrders(outbox)
    IN  (in.id \in DOMAIN o /\ in.id \notin torn /\ ~Refused(in)) => Traded(in.id) + o[in.id].left = in.volume

\* volume of an order still open at the broker
Open(in) ==
  LET o == LatestOrders(outbox)
  IN  IF in.id \notin DOMAIN o THEN in.volume
      ELSE IF is_final_status(o[in.id].status) THEN 0 ELSE o[in.id].left

Input(i) == CHOOSE in \in Sent : in.id = i

\* what the orders of one side come to, when amount[i] is that of order i
SumOver(side, amount) == Total([i \in 1 .. Cardinality(Sent) |-> IF Input(i).side = side THEN amount[i] ELSE 0])

\* When the strategy has read everything, the cash and the volume its book holds frozen are those
\* of the orders still open or unanswered, and the available cash accounts for all the rest.
BookMatches ==
  (spos = Len(outbox) /\ \A in \in Sent : in.id \notin torn /\ ~Refused(in)) =>
    LET ids  == 1 .. Cardinality(Sent)
        open == [i \in ids |-> Open(Input(i))]
        cash == [i \in ids |-> Input(i).price * open[i]]
        paid == [i \in ids |-> Input(i).price * Traded(i)]
    IN  /\ book.frozen_cash = SumOver("Buy", cash)
        /\ book.frozen_total = SumOver("Sell", open)
        /\ book.avail = SumOver("Sell", paid) - SumOver("Buy", paid) - SumOver("Buy", cash)

Reported(i) == i \in DOMAIN LatestOrders(outbox)

\* Every order sent is reported in the end, by its handler, at the end of its batch or as lost by
\* the next recovery, unless the trader met the strategy only after that recovery.
Answered ==
  \A i \in Ids : (\E in \in Sent : in.id = i) ~> (Reported(i) \/ i \in missed)
=============================================================================
