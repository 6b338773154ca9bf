----------------------------- MODULE FutureBook -----------------------------
(***************************************************************************)
(* The ledger's books of one future (wingchun/book): the book of a         *)
(* strategy and the book of the account it trades with, fed by the reports *)
(* of the simulated broker or of the CTP trader.                           *)
(*                                                                         *)
(* The ledger reads the journals in the order their frames were written    *)
(* (modules Journal and MergeReader) and a book answers nothing, so the    *)
(* books are updated in the step that writes a frame.  Contract multiplier,*)
(* margin ratios and exchange rate are 1, commissions are by volume, and   *)
(* the profits, which no cash depends on, are left out.  The snapshots of  *)
(* the account (try_update_asset, try_update_position) are not modelled.   *)
(* FutureAccountingMethod::apply_trading_day has no caller.                *)
(***************************************************************************)
EXTENDS Integers, Sequences, FiniteSets, FiniteSetsExt, SequencesExt

CONSTANTS Setups,      \* broker ("sim" or "ctp"), merging exchange or not, position at the start,
                       \* bound on the orders of the strategy
          Requests,    \* orders a strategy may send
          Quotes,      \* settlement prices a quote may carry
          Fees,        \* Commission: open_ratio, close_ratio, close_today_ratio
          MaxQuotes, MaxQueries

Offsets == {"Open", "Close", "CloseToday"}

ASSUME FutureAssumption ==
    /\ Setups \subseteq [broker : {"sim", "ctp"}, merge : BOOLEAN, holding : Nat, orders : Nat]
    /\ Requests \subseteq [side : {"Buy", "Sell"}, offset : Offsets, price : Nat \ {0}, volume : Nat \ {0}]
    /\ Quotes \subseteq Nat \ {0} /\ Fees \in [open : Nat, close : Nat, today : Nat]
    /\ MaxQuotes \in Nat /\ MaxQueries \in Nat

VARIABLES setup,
          orders,      \* the broker's orders: the request, what is left of it, its fills, its stage
          mapped,      \* CTP: ref_to_order_id_; sim: TraderSim::orders_
          notes,       \* CTP: notifications not handled yet
          book,        \* books_: of the strategy and of the account
          booked,      \* history: was the order booked as an opening one?
          odd,         \* history: reports that are not told once, by kind and order
          quotes, queries   \* bounds

broker == <<orders, mapped, notes>>
vars == <<setup, broker, book, booked, odd, quotes, queries>>

Holders == {"strategy", "account"}
Directions == {"Long", "Short"}

-----------------------------------------------------------------------------
(* FutureAccountingMethod, as functions of a book.                           *)

Opposite(direction) == IF direction = "Long" THEN "Short" ELSE "Long"

\* Mutant: closing today's position is taken for opening.
get_direction_today(side, offset) ==
    IF (side = "Buy") = (offset # "Close") THEN "Long" ELSE "Short"

get_direction(side, offset) ==
    IF (side = "Buy") = (offset = "Open") THEN "Long" ELSE "Short"

\* On an exchange that merges positions, an opening order closes the opposite
\* position first, and a closing order without a position opens one.
get_offset(b, in) ==
    LET direction == get_direction(in.side, in.offset) IN
    CASE setup.merge /\ in.offset = "Open" /\ b.pos[Opposite(direction)].volume > 0 -> "Close"
      [] setup.merge /\ in.offset # "Open" /\ b.pos[direction].volume <= 0 -> "Open"
      [] OTHER -> in.offset

Freeze(b, cash) == [b EXCEPT !.avail = @ - cash, !.frozen_cash = @ + cash]

\* Mutant: only Close freezes volume.
apply_order_input_close(b, in) ==
    LET offset == get_offset(b, in)
        direction == get_direction(in.side, offset) IN
    CASE offset = "Open" -> Freeze(b, in.price * in.volume)
      [] offset = "Close" -> [b EXCEPT !.pos[direction].frozen_total = @ + in.volume]
      [] offset = "CloseToday" -> b

apply_order_input(b, in) ==
    LET offset == get_offset(b, in)
        direction == get_direction(in.side, offset)
        p == b.pos[direction] IN
    CASE offset = "Open" -> Freeze(b, in.price * in.volume)
      [] offset = "Close" ->
            [b EXCEPT !.pos[direction].frozen_total = @ + in.volume,
                      !.pos[direction].frozen_yesterday =
                          IF p.yesterday_volume - @ >= in.volume THEN @ + in.volume ELSE p.yesterday_volume]
      [] offset = "CloseToday" -> [b EXCEPT !.pos[direction].frozen_total = @ + in.volume]

\* Mutant: an order that ends releases what it asked for, not what is left.
apply_final_whole(b, in, left) ==
    LET offset == get_offset(b, in)
        direction == get_direction(in.side, offset) IN
    IF offset = "Open" THEN Freeze(b, -(in.price * in.volume))
    ELSE [b EXCEPT !.pos[direction].frozen_total = Max({@ - in.volume, 0})]

\* The part of apply_order that follows is_final_status.
apply_final(b, in, left) ==
    LET offset == get_offset(b, in)
        direction == get_direction(in.side, offset) IN
    CASE offset = "Open" -> Freeze(b, -(in.price * left))
      [] offset = "Close" ->
            [b EXCEPT !.pos[direction].frozen_total = Max({@ - left, 0}),
                      !.pos[direction].frozen_yesterday = Max({@ - left, 0})]
      [] offset = "CloseToday" ->
            [b EXCEPT !.pos[direction].frozen_total = IF @ >= left THEN @ - left ELSE @]

apply_order(b, id, in, left, final) ==
    LET known == [b EXCEPT !.known = @ \cup {id}] IN
    IF final THEN apply_final(known, in, left) ELSE known

Commission(in, volume, close_today_volume) ==
    IF in.offset = "Open" THEN volume * Fees.open
    ELSE (volume - close_today_volume) * Fees.close + close_today_volume * Fees.today

get_frozen_price(b, id, in) == IF id \in b.known THEN in.price ELSE 0

Pay(b, fee) == [b EXCEPT !.avail = @ - fee, !.fee = @ + fee]

apply_open(b, id, in, direction, volume, price) ==
    LET opened == [b EXCEPT !.avail = @ - price * volume,
                            !.pos[direction].margin = @ + price * volume,
                            !.pos[direction].volume = @ + volume] IN
    Pay(Freeze(opened, -(get_frozen_price(b, id, in) * volume)), Commission(in, volume, 0))

delta_margin(p, volume, price) == Min({p.margin, price * volume})

\* Mutant: the yesterday volume is not kept above zero.
Older_unbounded(from, volume) == from - volume

Older(from, volume) == Max({from - volume, 0})

apply_close(b, in, direction, volume, price) ==
    LET p == b.pos[direction]
        released == delta_margin(p, volume, price)
        today == in.offset = "CloseToday"
        close_today_volume == IF today THEN volume ELSE Older(volume, p.yesterday_volume)
        closed == [p EXCEPT !.margin = @ - released, !.volume = @ - volume, !.frozen_total = @ - volume,
                            !.yesterday_volume = IF today THEN @ ELSE Older(@, volume),
                            !.frozen_yesterday = IF today THEN @ ELSE Older(@, volume)] IN
    Pay([b EXCEPT !.pos[direction] = closed, !.avail = @ + released], Commission(in, volume, close_today_volume))

apply_trade(b, id, in, volume, price) ==
    LET offset == get_offset(b, in)
        direction == get_direction(in.side, offset) IN
    IF offset = "Open" THEN apply_open(b, id, in, direction, volume, price)
                       ELSE apply_close(b, in, direction, volume, price)

\* Mutant: the margin changes and the cash does not.
apply_settlement_free(b, direction, price) ==
    [b EXCEPT !.pos[direction].margin = b.pos[direction].settlement_price * b.pos[direction].volume,
              !.pos[direction].settlement_price = price]

\* The margin is computed from the settlement price of the quote before.
apply_settlement(b, direction, price) ==
    LET p == b.pos[direction]
        margin == p.settlement_price * p.volume IN
    [b EXCEPT !.pos[direction].margin = margin, !.pos[direction].settlement_price = price,
              !.avail = @ - (margin - p.margin)]

apply_quote(b, price) == apply_settlement(apply_settlement(b, "Long", price), "Short", price)

-----------------------------------------------------------------------------
(* Frames of the trader.  Bookkeeper::update_book applies a frame to the      *)
(* book of its source and, unless it is public, to the book of its dest.      *)

OrderFrame(id, in, left, final) == [type |-> "Order", id |-> id, in |-> in, left |-> left, final |-> final]

TradeFrame(id, in, volume, price) == [type |-> "Trade", id |-> id, in |-> in, volume |-> volume, price |-> price]

Apply(b, frame) ==
    IF frame.type = "Order" THEN apply_order(b, frame.id, frame.in, frame.left, frame.final)
                            ELSE apply_trade(b, frame.id, frame.in, frame.volume, frame.price)

\* The books after a frame to `dest', "strategy" or "public".
update_book(books, frame, dest) ==
    [h \in Holders |-> IF h = "account" \/ dest = "strategy" THEN Apply(books[h], frame) ELSE books[h]]

\* TraderCtp::write_order and write_trade write a frame to the strategy and again to PUBLIC.
write_both(books, frame, source) ==
    LET told == IF source THEN update_book(books, frame, "strategy") ELSE books IN
    update_book(told, frame, "public")

\* The books a report reaches at most once: the strategy's, and with the simulated broker
\* the account's too.
Told == IF setup.broker = "sim" THEN Holders ELSE {"strategy"}

\* An order booked as an opening one at its input and as a closing one now, or the
\* reverse: only where positions merge.
Flips(books, o) ==
    {<<"flipped", o>> : h \in {h \in Told : (get_offset(books[h], orders[o].in) = "Open") # booked[o]}}

-----------------------------------------------------------------------------
NoPosition == [volume |-> 0, yesterday_volume |-> 0, frozen_total |-> 0, frozen_yesterday |-> 0,
               margin |-> 0, settlement_price |-> 0]

\* A book restored with a long position of yesterday.
Restored(holding) ==
    [avail |-> -holding, frozen_cash |-> 0, fee |-> 0, known |-> {},
     pos |-> [d \in Directions |->
                IF d = "Long" THEN [NoPosition EXCEPT !.volume = holding, !.yesterday_volume = holding,
                                                      !.margin = holding]
                ELSE NoPosition]]

Init ==
    /\ setup \in Setups
    /\ orders = <<>> /\ mapped = {} /\ notes = <<>>
    /\ book = [h \in Holders |-> Restored(setup.holding)]
    /\ booked = <<>> /\ odd = {} /\ quotes = 0 /\ queries = 0

\* A strategy closes no more than its book shows as free.
Free(in) ==
    LET p == book["strategy"].pos[get_direction(in.side, in.offset)] IN
    setup.merge \/ in.offset = "Open" \/ p.volume - p.frozen_total >= in.volume

\* The strategy writes an OrderInput; both books have it before the broker answers.
insert_order(in) ==
    /\ Len(orders) < setup.orders /\ Free(in)
    /\ orders' = Append(orders, [in |-> in, left |-> in.volume, fills |-> <<>>, stage |-> "sent"])
    /\ booked' = Append(booked, get_offset(book["strategy"], in) = "Open")
    /\ book' = [h \in Holders |-> apply_order_input(book[h], in)]
    /\ UNCHANGED <<setup, mapped, notes, odd, quotes, queries>>

Quote(price) ==
    /\ quotes < MaxQuotes /\ quotes' = quotes + 1
    /\ book' = [h \in Holders |->
                  IF \E d \in Directions : book[h].pos[d].volume # 0 THEN apply_quote(book[h], price) ELSE book[h]]
    /\ UNCHANGED <<setup, broker, booked, odd, queries>>

-----------------------------------------------------------------------------
(* The simulated broker: an order is matched in the handler of its input.     *)

\* The fills of a match mode, and whether the order is final then.
Matches(in) ==
    LET one == << <<1, in.price>> >> IN
    {[fills |-> <<>>, final |-> final] : final \in BOOLEAN}            \* Reject, Cancel; Pend
    \cup {[fills |-> one, final |-> final \/ in.volume = 1] : final \in BOOLEAN}  \* PartialFill(AndCancel)
    \cup {[fills |-> << <<in.volume, in.price>> >>, final |-> TRUE],                     \* Fill
          [fills |-> [k \in 1..in.volume |-> <<1, in.price>>], final |-> TRUE]}          \* Multiple

Total(s) == LET total[k \in 0..Len(s)] == IF k = 0 THEN 0 ELSE total[k - 1] + s[k]
            IN  total[Len(s)]

Traded(fills) == Total([k \in DOMAIN fills |-> fills[k][1]])

sim_insert_order(o) ==
    /\ setup.broker = "sim" /\ orders[o].stage = "sent"
    /\ \E match \in Matches(orders[o].in) :
          LET in == orders[o].in
              fills == match.fills
              left == in.volume - Traded(fills)
              \* the books after the order and its first k trades
              books[k \in 0..Len(fills)] ==
                  IF k = 0 THEN update_book(book, OrderFrame(o, in, left, match.final), "strategy")
                  ELSE update_book(books[k - 1], TradeFrame(o, in, fills[k][1], fills[k][2]), "strategy") IN
          /\ orders' = [orders EXCEPT ![o].left = left, ![o].fills = fills,
                                      ![o].stage = IF match.final THEN "done" ELSE "live"]
          /\ book' = books[Len(fills)]
          /\ odd' = odd \cup Flips(book, o) \cup UNION {Flips(books[k - 1], o) : k \in DOMAIN fills}
    /\ mapped' = mapped \cup {o}
    /\ UNCHANGED <<setup, notes, booked, quotes, queries>>

\* TraderSim::cancel_order: also of an order that ended with something left.
sim_cancel_order(o) ==
    /\ setup.broker = "sim" /\ o \in mapped
    /\ mapped' = mapped \ {o}
    /\ IF orders[o].left = 0 THEN UNCHANGED <<orders, book, odd>>
       ELSE /\ orders' = [orders EXCEPT ![o].stage = "done"]
            /\ book' = update_book(book, OrderFrame(o, orders[o].in, orders[o].left, TRUE), "strategy")
            /\ odd' = odd \cup Flips(book, o)
                          \cup (IF orders[o].stage = "done" THEN {<<"again", o>>} ELSE {})
    /\ UNCHANGED <<setup, notes, booked, quotes, queries>>

-----------------------------------------------------------------------------
(* CTP: module CtpOrders has the ids and the sessions; here one session lasts. *)

Note(on, o, left, final, price) == [on |-> on, o |-> o, left |-> left, final |-> final, price |-> price]

Ctp(o, stage) == setup.broker = "ctp" /\ orders[o].stage = stage

\* write_error_order: not ready, invalid or refused by the library.
ctp_insert_refused(o) ==
    /\ Ctp(o, "sent")
    /\ orders' = [orders EXCEPT ![o].stage = "done"]
    /\ book' = write_both(book, OrderFrame(o, orders[o].in, orders[o].left, TRUE), TRUE)
    /\ odd' = odd \cup Flips(book, o)
    /\ UNCHANGED <<setup, mapped, notes, booked, quotes, queries>>

ctp_insert_order(o) ==
    /\ Ctp(o, "sent")
    /\ orders' = [orders EXCEPT ![o].stage = "live"]
    /\ mapped' = mapped \cup {o}
    /\ notes' = Append(notes, Note("order", o, orders[o].left, FALSE, 0))
    /\ UNCHANGED <<setup, book, booked, odd, quotes, queries>>

ctp_reject(o) ==
    /\ Ctp(o, "live") /\ orders[o].fills = <<>>
    /\ orders' = [orders EXCEPT ![o].stage = "done"]
    /\ notes' = Append(notes, Note("insert_rejected", o, 0, TRUE, 0))
    /\ UNCHANGED <<setup, mapped, book, booked, odd, quotes, queries>>

\* One lot at the limit or at a better price of the book; the order is notified first.
ctp_fill(o) ==
    /\ Ctp(o, "live")
    /\ \E price \in {orders[o].in.price} \cup {q \in Quotes : (q < orders[o].in.price) = (orders[o].in.side = "Buy")} :
          LET left == orders[o].left - 1 IN
          /\ orders' = [orders EXCEPT ![o].left = left, ![o].fills = Append(@, <<1, price>>),
                                      ![o].stage = IF left = 0 THEN "done" ELSE "live"]
          /\ notes' = notes \o <<Note("order", o, left, left = 0, 0), Note("trade", o, left, FALSE, price)>>
    /\ UNCHANGED <<setup, mapped, book, booked, odd, quotes, queries>>

\* TraderCtp::cancel_order, and the exchange that finds the order.
ctp_cancel_order(o) ==
    /\ Ctp(o, "live") /\ o \in mapped
    /\ orders' = [orders EXCEPT ![o].stage = "done"]
    /\ notes' = Append(notes, Note("order", o, orders[o].left, TRUE, 0))
    /\ UNCHANGED <<setup, mapped, book, booked, odd, quotes, queries>>

\* OrderTradeRequest, which every client sends when the trader is ready
\* (Client::sync): the orders of the day, then their trades, are reported again.
ctp_req_order_trade ==
    /\ setup.broker = "ctp" /\ queries < MaxQueries /\ queries' = queries + 1
    /\ notes' = notes
         \o [o \in DOMAIN orders |->
               Note("qry_order", o, orders[o].left, orders[o].stage = "done", 0)]
         \o FlattenSeq([o \in DOMAIN orders |->
               [k \in DOMAIN orders[o].fills |-> Note("qry_trade", o, 0, FALSE, orders[o].fills[k][2])]])
    /\ UNCHANGED <<setup, orders, mapped, book, booked, odd, quotes>>

\* Ids hashed from the OrderSysID are negative.
resolve_order_id(o) == IF o \in mapped THEN o ELSE -o

\* erase_order_mapping; the answer to a query erases nothing.
Erased(note) == IF note.on \in {"order", "insert_rejected"} /\ note.final THEN mapped \ {note.o} ELSE mapped

\* What a report tells the strategy's book wrongly: a trade whose order's mapping is
\* gone is not told, a queried trade or end of an order is told again, a rejection
\* releases nothing (volume_left = 0), and where positions merge the offset may turn.
Oddities(note) ==
    (IF note.on = "trade" /\ note.o \notin mapped THEN {<<"late", note.o>>} ELSE {})
    \cup (IF note.on \in {"qry_order", "qry_trade"} /\ note.o \in mapped /\ (note.final \/ note.on = "qry_trade")
          THEN {<<"again", note.o>>} ELSE {})
    \cup (IF note.on = "insert_rejected" /\ note.o \in mapped THEN {<<"kept", note.o>>} ELSE {})
    \cup (IF note.o \in mapped THEN Flips(book, note.o) ELSE {})

\* on_rtn_order, on_rtn_trade, on_qry_order, on_qry_trade, on_order_insert_rejected
ctp_handle ==
    /\ notes # <<>>
    /\ notes' = Tail(notes)
    /\ LET note == Head(notes)
           id == resolve_order_id(note.o)
           in == orders[note.o].in
           frame == IF note.on \in {"trade", "qry_trade"} THEN TradeFrame(id, in, 1, note.price)
                                                         ELSE OrderFrame(id, in, note.left, note.final) IN
       /\ book' = IF note.on = "insert_rejected" /\ note.o \notin mapped THEN book
                  ELSE write_both(book, frame, note.o \in mapped)
       /\ mapped' = Erased(note)
       /\ odd' = odd \cup Oddities(note)
    /\ UNCHANGED <<setup, orders, booked, quotes, queries>>

-----------------------------------------------------------------------------
Next ==
    \/ \E in \in Requests : insert_order(in)
    \/ \E price \in Quotes : Quote(price)
    \/ \E o \in DOMAIN orders :
          \/ sim_insert_order(o) \/ sim_cancel_order(o)
          \/ ctp_insert_refused(o) \/ ctp_insert_order(o) \/ ctp_reject(o)
          \/ ctp_fill(o) \/ ctp_cancel_order(o)
    \/ ctp_req_order_trade \/ ctp_handle

Spec == Init /\ [][Next]_vars

-----------------------------------------------------------------------------
Positions == [volume : Int, yesterday_volume : Nat, frozen_total : Int, frozen_yesterday : Nat,
              margin : Int, settlement_price : Nat]

TypeOK ==
    /\ setup \in Setups
    /\ \A o \in DOMAIN orders : /\ orders[o].in \in Requests /\ orders[o].left \in 0..orders[o].in.volume
                                /\ orders[o].stage \in {"sent", "live", "done"}
    /\ mapped \subseteq DOMAIN orders
    /\ \A h \in Holders : /\ book[h].avail \in Int /\ book[h].frozen_cash \in Int /\ book[h].fee \in Nat
                          /\ book[h].known \subseteq Int /\ book[h].pos \in [Directions -> Positions]

Odd(kinds) == \E e \in odd : e[1] \in kinds

Margins(b) == b.pos["Long"].margin + b.pos["Short"].margin

\* Cash never appears or vanishes: what is not available is frozen for an order, held
\* as margin of a position or paid as a fee, in every book, whatever is told
\* late, again or never, whatever quotes come and however an order is booked.
Conserved == \A h \in Holders : LET b == book[h] IN b.avail + b.frozen_cash + Margins(b) + b.fee = 0

\* Signed volume traded by an order.
Signed(o) == (IF orders[o].in.side = "Buy" THEN 1 ELSE -1) * Traded(orders[o].fills)

NetTraded == setup.holding + Total([o \in DOMAIN orders |-> Signed(o)])

\* Once all is handled, long minus short is what was traded, however the offsets were
\* merged, unless a trade came after the order's end was reported or was queried.
NetExact ==
    \/ notes # <<>> \/ Odd({"late", "again"})
    \/ \A h \in Told : book[h].pos["Long"].volume - book[h].pos["Short"].volume = NetTraded

\* Once every order is done and all is handled, nothing stays frozen: the releases of
\* apply_open, apply_close and apply_order add up to what apply_order_input froze,
\* unless a report was late, repeated, a rejection or booked the other way.
Released ==
    \/ notes # <<>> \/ \E o \in DOMAIN orders : orders[o].stage # "done"
    \/ odd # {}
    \/ \A h \in Told : /\ book[h].frozen_cash = 0
                       /\ \A d \in Directions : /\ book[h].pos[d].frozen_total = 0
                                                /\ book[h].pos[d].frozen_yesterday = 0

\* A strategy that closes only what its book shows as free never closes more than it
\* holds, with closes, fills and cancels in any order, unless a report is repeated.
NotOversold ==
    \/ setup.merge \/ Odd({"again"})
    \/ \A h \in Told, d \in Directions :
          LET p == book[h].pos[d] IN
          0 <= p.frozen_total /\ p.frozen_total <= p.volume /\ p.frozen_yesterday <= p.yesterday_volume

\* The ledger's book of the account follows its orders and trades (DESIGN.md:960, 963):
\* once all is handled, its long minus short is what was traded, as NetExact says of the
\* books in Told, unless a trade came after the order's end was reported or was queried.
AccountExact ==
    LET pos == book["account"].pos IN
    \/ notes # <<>> \/ Odd({"late", "again"})
    \/ pos["Long"].volume - pos["Short"].volume = NetTraded
=============================================================================
