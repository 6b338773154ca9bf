# A verification project for kungfu-cpp

kungfu-cpp is an event-driven trading system: a set of processes on one host (a
master, a state cache, broker adapters, a ledger, strategies, a gateway) that talk
to each other only through *journals*, append-only logs in memory-mapped files that
one process writes and any number of others poll. This directory holds TLA+ models
of its core, the TLC configurations that check them on small instances, and proofs,
checked by TLAPS, of the properties that matter most for every instance.

Paths below are relative to the repository. All line numbers of the correspondence
between definitions and code are in `PROJECT.json` under `map`.

## 1. Inventory

| Component | State | Operations | Interacts with |
|---|---|---|---|
| **Journal** (`yijinjing/journal/{page,frame,journal,writer,mmap}`) | page files, `page_header::last_frame_position`, frame headers, a cursor per process | `page::load`, `find_page_id`, `seek_to_time`, `journal::next`, `open_frame`/`close_frame`, `close_page` | shared memory between one writer process and its readers; no lock, no fence |
| **Multi-journal reader, event loop** (`journal/reader.cpp`, `practice/hero.cpp`) | the joined journals with their cursors, `current_` | `join`, `disjoin`, `disjoin_channel`, `data_available`, `next`, `sort`, `drain` | handlers call `join` and `disjoin` while `drain` hands out a frame |
| **Master, apprentice** (`practice/{master,apprentice,hero}.cpp`, `apps/master.cpp`) | locations, registry, channels, writers, timers, pids | check-in, register, refuse, health check, deregister, RequestReadFrom/WriteTo, RequestCached(Done), RequestStart | nng socket for the check-in, journals for all else |
| **Cached** (`cache/`) | feed queues, SQLite files | feed, store loop, restore | answers RequestCached of every process |
| **Clock anchor** (`util/time.cpp`) | a shared anchor file | adopt or publish an anchor | gives all processes one clock |
| **Session index, timers, bands, channels** | begin/end times; armed tasks; source-destination pairs | open/close session; TimeRequest; channel registration | master, cached, tools |
| **Trader service** (`wingchun/broker/trader.cpp`) | orders, trades, batch mode per strategy, self-deal map | order input, batch begin/end, cancel, recovery | strategies, broker adapter |
| **Simulated broker** (`brokers/sim`) | orders, an order book per instrument | insert, match, cancel | trader service |
| **CTP broker** (`brokers/ctp`) | task queue filled by the library's thread, paced query queue, connection state, maps between order refs and order ids, subscriptions | enqueue, drain, pump, time out, log in, confirm the settlement, insert, cancel, report, subscribe | the library's thread, the front, the trader and market data services |
| **Market data service** (`wingchun/broker/marketdata.cpp`) | pending subscriptions | subscribe every second, cancel | broker adapters, clients' journals |
| **Broker client** (`wingchun/broker/client.cpp`) | connected and ready brokers, instruments to replay and where from, resume points | connect, renew, sync, subscribe | master's registry, public journals of brokers and ledger |
| **Strategy runner** (`wingchun/strategy`) | started flag, hooks, baskets | prepare handshake, batch orders, basket status | broker client, bookkeeper |
| **Bookkeeper, accounting, ledger** (`wingchun/book`, `service/ledger`) | books: cash, frozen cash, positions, open orders | order input, order, trade, quote, settle, mirror | order streams of several journals |
| **API gateway** (`apps/api.cpp`) | sessions with their subscriptions, request and disconnect queues, owners of manual orders | accept, receive, clean up, subscribe, cancel, watch, issue orders | socket threads, broker client, the journals of traders |
| **Bar service**, **desktop client**, **ring queue** | aggregation windows; widgets | | |

The behaviours that are hard to test, each at its line, are the `hazards` of
`PROJECT.json`. The ones that decide the shape of the models:

* **Lock-free sharing.** A reader decides from two fields of a header in shared memory
  whether a frame is there; only the order of the writer's stores keeps it from a
  half-written frame. Rolling to a new page takes a dozen stores in two files.
* **Crashes.** The files survive the processes. A restarted writer reconstructs its
  position from page headers and gen_times; a restarted apprentice finds commands
  addressed to its last run.
* **Order across journals.** Each process merges its journals by gen_time, a stamp taken
  before the frame is visible. The start-up protocol sends the parts of one exchange
  through different journals and relies on the merged order.
* **Handlers that change what they are called from.** `join` and `disjoin` run inside
  the loop that iterates over the joined journals.
* **Once-only requests.** cached is asked once, `RequestStart` comes once; nothing is
  retried.
* **Foreign threads.** The CTP library calls back on its own thread; callbacks queue tasks
  that run when the state they were made for may be gone. A receive thread per client
  queues requests of sessions that may have ended.
* **Lines that drop.** Answers are lost, sessions change their number, the front forgets
  its subscriptions, services restart empty, and those who asked must ask again.
* **Reports that come twice, late or never.** The books have no key to recognise a report
  by, and reports travel through several journals.

What makes each component correct:

* *Journal*: a reader is handed whole frames only, each once and in order; a published
  frame is never overwritten; no address outside the page is touched; a page announced
  by PageEnd is ready; a restarted writer continues at the end; everything published is
  eventually read by everybody who joined.
* *Reader*: whatever handlers join or leave, the frames of a joined journal are handed
  over exactly once, in order, and eventually.
* *Start-up*: lookups never fail, a process starts with its stored state, registries
  converge, everybody starts.
* *Trading*: every order is reported and in the end in one final status, the volumes of
  trades and of the remainder add up; a book releases what it froze exactly once.
* *CTP broker*: no two queries at once, no query waits for ever, the settlement is
  confirmed; a report or a cancel meets the order it names and the strategy hears its end;
  the front feeds what clients want.
* *Gateway and broker client*: an instrument is subscribed exactly as long as somebody asks
  for it, also after restarts; nobody's departure takes something from another session.
* *Books*: cash is neither made nor lost; positions are what was traded; no volume is sold
  twice.

## 2. Modules

| Module | Models |
|---|---|
| `Journal` | one journal: the page chain, one writer, its readers, store by store |
| `JournalLog` | the abstract journal: a numbered log with a cursor per reader |
| `JournalInv` | the inductive invariant of the page chain |
| `JournalProofs` | theorems about `Journal` |
| `MergeReader` | `reader` and `hero::drain` over several journals |
| `Practice` | check-in, registration, cached hand-shake, start, kill and restart |
| `Trading` | a strategy's order calls, the trader service, the simulated broker, the strategy's book |
| `CtpSession` | login, settlement, task queue and paced queries of the CTP trader |
| `CtpOrders` | order refs, ids and their mappings in the CTP trader, across sessions and restarts |
| `CtpMarketData` | the market data service and its CTP adapter |
| `Gateway` | the API gateway, its broker client, the services and the ledger's broker states around it |
| `FutureBook` | futures accounting in the books of a strategy and its account, fed by either trader |
| `PracticeProofs`, `TradingProofs`, `CtpMarketDataProofs`, `CtpOrdersProofs`, `GatewayProofs`, `FutureBookProofs` | theorems about the modules they are named after |
| `EventLoopProofs` | theorems about `MergeReader` and `CtpSession`: what the loop hands to its process, frames and tasks |
| `MC*` | instances for TLC |

### Journal

`fsize`, `lfp` and `mem` are the shared memory: the size of each page file (absent,
created, stretched), `last_frame_position`, and the frame header at each offset. The
header keeps the fields the code tests (`length`, `header_length`, `msg_type`,
`gen_time`) plus `id`, which stands for the body: the number of the frame whose data
lies there. An offset in the middle of a frame's data holds `Garbage`, a header that
looks like a frame, so that a reader which looks at the wrong place is caught. `pc`,
`page`, `addr` are each process's control point, page and cursor; `num`, `written`,
`got` are history variables used only in properties.

Every store, and every load acted on later, is a step: `LoadSize`, `LoadOpen`,
`LoadStretch`, `LoadCheck`, `LoadInit` are `page::load` with `os::load_mmap_buffer`;
`ListPages`, `ScanSize`, `ScanTime` are `find_page_id`; `SeekPage`, `SeekFrame` are
`seek_to_time`; `OpenFrame`, `OpenHead`, `StoreBody`, `StoreNext`, `StoreTime`,
`StoreLength`, `Position` are `open_frame` to `close_frame`; `EndHead`, `EndTime`,
`EndLength`, `EndPosition` are `close_page`. `StrayClose` is the `close_data` the batch
order calls of `wingchun/strategy/runtime.cpp` issue without an open frame. `Crash`
ends the writer anywhere; `Start(s)` is the writer's constructor with a clock that is
`s` behind. The data races of the C++ code are the interleavings of these steps; with
`Reorder = TRUE` the stores of `close_frame` become visible in any order.

Error exits are control points: `"segv"` (a store through a read-only mapping),
`"failed"` (`journal_error`), `"overrun"` (an address outside the mapping).

### MergeReader

A journal is the sequence of gen_times of its visible frames, plus the stamp its writer
has taken for a frame not yet visible. `Poll` is one successful test of the loop in
`hero::drain` and the call of the handlers, `Advance` is `reader::next` behind it;
`Join` may happen at any time, inside a handler or not; so may `Leave` (the master's
deregistration between frames, `apprentice::on_deregister` inside the handler of a frame of
another journal). `jumped` remembers the two journals between which a disjoin moved
`current_` while a frame was in hand.

### Practice

`log` holds the frames of all journals in gen_time order, so the index of a frame is
its gen_time; what a process reads next is the first frame of `log` in a journal it has
joined and behind its cursor there. That is the order `MergeReader` gives when frames
are visible as soon as they are stamped. The master's handlers produce sequences of
frames (`WriteToFrames`, `ReadFromFrames`, `ReadyFrames`, `DoneFrames`), an
apprentice's handlers are `OnRegister`, `OnDeregister`, `OnReadFromReply`, `OnWriteTo`,
`OnCachedReady`, `OnStart`, `OnState`; `OnRequestCached` is cached's. A lookup that
throws (`get_writer`, `get_location`) takes the process down and puts it in `broken`.
`Boot` and `Crash` start and kill processes; `HealthCheck` is the master's periodic
test of pids. A check-in to a location that is still registered is refused.

Abstractions: a handler is one step (it runs in one thread and its frames go to journals
only that process writes); frames of one kind written in a row to one journal are one
frame with the set of what they name; a process's stored state is one frame `State`.

### Trading

`inbox` and `outbox` are the journals from the strategy to the trader and back, `tpos` and
`spos` how far each side has read. `HandleFrame` is the trader's handler of one frame:
`handle_order_input` with the self-deal test `HasRisk`, `handle_batch_order_tag`,
`insert_block_message`, and `TraderSim`'s `insert_order_` and `cancel_order`, which give the
sequence of frames `Answer`. `Start` is `TraderVendor::on_start` with `recover()`;
`Link` is the result of `Client::connect` and the master's answers, `SeeReady` and
`SeeGone` what the broker client makes of BrokerStateUpdate and Deregister. The strategy's
calls are `InsertOrder`, `InsertBlockMessage`, `BatchBegin` and `BatchEnd` (the two marks of
`insert_batch_orders`, with `InsertOrder` between them) and `CancelOrder`; `ReadFrame` is the
bookkeeper, with `apply_order_input`, `apply_order` and `apply_trade` of the stock accounting.
`Crash` ends the trader after any number of the frames of its handler.

Three things the code does that are easy to overlook and are in the model: `TraderSim` declares
an `orders_` of its own, which hides the one `has_self_deal_risk` reads, so that only orders
found by `recover()` are ever compared; `cancel_order` looks at `volume_left`, not at the
status; an order refused for an unknown block is reported with `volume_left` already reduced.

Abstractions: limit orders for one stock, without fees, exchange rate 1; one book (the
bookkeeper keeps two equal ones, for the strategy and the account); market value and profit
are left out; an order id is the order's number; the broker's configuration is not edited.
The strategy does not restart.

### CtpSession, CtpOrders, CtpMarketData

Each has the callbacks of the library's thread as actions that append to `tasks`, and the
task bodies as actions of the event loop, named after the methods of `TraderCtp`. The front
is external: it answers requests in order, refuses or fails them when `faulty`, and loses
them when the line drops.

`CtpSession` keeps `server`, the requests the front has not answered, the swapped-out tasks
`pending`, the flags `logged_in` and `ready`, and `query_queue` with `query_in_flight`.
`OnRspQryInstrument` enqueues two tasks in two steps, as the callback does, so that a drain
may come between them. `pump_query_queue` is the 1.1 second timer; the time-out may strike at
any moment, `MaxLate` times while the answer is still to come.

`CtpOrders` keeps the exchange's `book`, notifications held back while the line is down
(`flow`), the session numbers, `order_ref_counter_` and the two maps. `recover()` reads all
the journals the trader writes and keeps the last frame of each order, which is the one in
PUBLIC: `journal` is what it finds, `Restart` the trader's death and `on_recover`. A death
between the two writes of one report is not modelled. Ids the trader hashes from OrderSysID or session and ref are negative numbers
and never collide.

`CtpMarketData` keeps `instruments_to_subscribe_`, `subscribed_`, `pending_subscribes_` and
what the front feeds. `Unsubscribe` hands the library pointers to destroyed strings
(market_data_ctp.cpp:133): the front may or may not take the instrument off.

### Gateway

The receive threads append to `requests` and `closing`, the event loop empties both
(`Disconnect`, `Drain`), and reads `news`: the frames of the master, of the services and of
the ledger. `connect`, `update_broker_state`, `Forget` and `Renewed` are the broker client;
`Known` and `LedgerReact` are the ledger's table of broker states, which it publishes again
after every change. A market data service is what the gateway relies on: it reads the
commands of its channel in order from the time it was told to, and comes back empty.
`crossed` and `late` remember the instruments asked of two services and the traders that
came up while their strategy was watched. A session is created again by a request that is
handled after its clean-up, as `sessions_[id]` does.

### FutureBook

`book` has two books, with the cash, the frozen cash, the fees and, for each direction, the
volumes and the margin the code keeps; the operators `apply_order_input`, `apply_order`,
`apply_trade` (`apply_open`, `apply_close`) and `apply_quote` are the methods of
`FutureAccountingMethod` as functions of a book, `update_book` is the bookkeeper's choice of
the books a frame is applied to. `sim_*` is the simulated broker, which writes each frame
once; `ctp_*` the CTP trader, which writes it to the strategy and to PUBLIC (`write_both`).
`odd` remembers what a book is told wrongly: a trade after its order's mapping was erased
(*late*), an end or a trade told again, by a query or a second cancel (*again*), a rejection
that releases nothing (*kept*), an order that some book it is reported to has as opening
though it was booked as closing, or the other way round, on an exchange that merges positions
(*flipped*, recorded at every report, for the books that are told of it).

Abstractions: contract multiplier, margin ratio and exchange rate are 1, commissions are by
volume, profit is left out, one future, one strategy. The strategy closes no more than its
book shows as free.

## 3. Runs

| Run | Expect | What it shows |
|---|---|---|
| `journal_safe` | pass | no crash: types, page borders, append-only memory, refinement of `JournalLog`, and under fairness every published frame reaches every reader that joined from the start |
| `journal_crash` | pass | the writer dies between any two stores: no torn frame, the page behind PageEnd is ready, the restarted writer stands at the end; the inductive invariant of the proofs |
| `reader_merge` | pass | three journals with late frames, joins and disjoins at any time: exactly once, in order, eventually, but for the journals a handler's disjoin mixes up |
| `practice` | pass | cached and an apprentice boot in any order, one is killed and restarted: lookups succeed and start-ups are fed in first runs, registries agree, without a kill everybody starts |
| `trading` | pass | two orders, a batch, cancels, a crash of the trader at any frame: nothing is reported after a final status, trades and `volume_left` add up, the book's frozen cash and volume are those of the open orders, every order is reported in the end |
| `ctp_session` | pass | a front that refuses, fails, answers late and drops the line: queries overlap only after a time-out or a doubled end (`OverlapCause`), no query waits for ever (`QueueServed`), the settlement is confirmed (`SettlementDone`) |
| `ctp_orders` | pass | two orders, fills, rejections, a cancel, a query, a reconnect, a restart: reports and cancels meet their order (`Attributed`), the strategy hears the end (`EndHeard`) |
| `ctp_market_data` | pass | subscriptions and cancellations around logins, refusals and drops: the front feeds what is wanted (`FrontFollows`, `WantedFed`) |
| `gateway` | pass | two sessions, two market data services, a trader, restarts: `ServedExactly`, `WatchedJoined`, `OwnerReachable`, and `RestartServed` under fairness |
| `future_book` | pass | two brokers, all match modes, settlement quotes, merged and unmerged positions: `Conserved`, `NetExact`, `Released`, `NotOversold` |
| `gateway_ledger` | violation | `RestartServed` when the ledger runs |
| `future_account` | violation | `AccountExact`: with the CTP trader the account's position is not what was traded |

### What the violations show

* **`gateway_ledger`** (ledger.cpp:70). On a Deregister the ledger erases the broker state of
  the event's source, which is the master, instead of the process that died. It publishes the
  dead service's `Ready` once more, the gateway's client marks it as ready again, and
  the `Ready` of the restarted service is then no change and triggers no `renew()`: its
  instruments stay unsubscribed, which the comment at api.cpp:739 means to prevent.
* **`future_account`** (trader_ctp.cpp:896). `TraderCtp` writes the orders and trades of a
  mapped order to the strategy's journal and to PUBLIC. The ledger reads both (client.cpp:182,
  ledger.cpp:168), and `update_book` applies each to the account's book. In the trace two lots
  are bought on a position of two and one is filled: the strategy's book shows three, the
  account's four, although DESIGN.md:960 and 963 have the ledger keep each account's positions
  by its orders and trades, and context.h:192 has mirrored positions (the default) always equal
  to the account's. Only trades that come before the order's end count twice: the trade of the
  last lot follows the final order, which has erased the mapping, goes to PUBLIC alone and
  counts once, for the account and not for the strategy (*late*). The account stays wrong until
  a position query is answered; the ledger asks every minute (ledger.cpp:58), which is not
  modelled. `future_book` shows that the books in `Told` are right, but for the exceptions below.

### Where the properties make exceptions

The passing properties name the cases the code does not handle; each was found as a
counterexample of the property without the exception.

* *Journal, without a property.* A lazy reader that loads a page between the writer's stretch
  and its header initialisation stores through a read-only mapping (page.cpp:55). A reader
  that joins while `close_page` runs is put on the empty new page, whose `begin_time()` is 0,
  and misses newer frames (page.cpp:96). A crash between `set_data_length` and
  `set_last_frame_position` lets PageEnd overwrite a published frame (writer.cpp:58), and a
  crash inside `close_page` leaves readers on the old page for ever (writer.cpp:107); with
  `MaxCrash = 1` in `MCJournal.cfg`, `AppendOnly` and `Broadcast` show the last two.
* *`ExactlyOnce`, `AllDelivered`*: `on_deregister` calls `disjoin` while `drain` holds a frame
  (apprentice.cpp:245); when another journal meanwhile shows an earlier frame, `next()` steps
  over that one, and the frame in hand is handed out twice.
* *`FirstStartsFed`*: a `RequestStart` meant for the last run of a process starts the new one
  unfed (apprentice.cpp:194).
* *`RegistryAgrees`*: a process that is started again joins its command journal from its own
  start (apprentice.cpp:194), which may be before its registration. A `Register` the master
  wrote there for its last run, read after the public `Deregister` of a second killed
  process, makes it take the second one for live. One killed process is not enough for that;
  a first run never sees it.
* *`Answered`*: an order the trader had not answered when it died is reported as lost only if
  the strategy's writer is there when the new trader recovers (trader.cpp:288).
* *`OverlapCause`*: the two ways in which the front sees two queries, which trader_ctp.h:124
  excludes. Besides, the rows of a position query are flushed only by an answer without a
  row (ctp_trader_spi.cpp:170), so after a last row `pending_positions` stays set; the
  broker's README.md:198 says otherwise.
* *`Attributed`*: a restarted trader counts refs from 0 again, and a report or a cancel may
  meet the wrong one of two orders with one ref. One order may also be reported under several
  ids, hashed from different fields before and after the exchange has it.
* *`FrontFollows`, `WantedFed`*: with anything queued, a login does not subscribe what was
  subscribed before (market_data_ctp.cpp:172, against the comment at 177); a refused
  subscription is never repeated; an unsubscription may name anything.
* *`ServedExactly`*: instruments asked of two services. *`WatchedJoined`*: traders that come
  up after their strategy was watched.
* *`NetExact`, `Released`, `NotOversold`*: the reports of `odd`, see FutureBook above. The
  query that repeats the day's trades is sent by every client when it connects
  (client.cpp:140).

Further behaviours outside the passing instances, reproduced by changing one constant:

| Change | Then TLC reports |
|---|---|
| `MCJournalCrash.cfg`, `Reorder = TRUE` | `NoTornFrame`: a reader is handed a frame whose body is not there; only program order, which neither the compiler nor a weakly ordered processor promises for plain stores, rules it out |
| `MCJournal.cfg`, `DataLengths = {4}` | `NoOverrun`: the largest frame the assertion of `open_frame` admits does not fit an empty page |
| `MCJournal.cfg`, `LowLatency = {r1}` | `AppendOnly`: a reader that maps pages read-write initialises a header late and moves `last_frame_position` back |
| `MCJournalCrash.cfg`, `MaxSkew = 2` | `WriterAtEnd`: a restarted writer whose clock is behind stops in front of published frames |
| `MCTrading.cfg`, `EagerCancel = TRUE` | `FinalStays`: a cancel that reaches the trader after the order has ended reports it once more, and the book releases its cash twice |
| `BookMatches` without `Refused` | an order refused for an unknown block keeps the cash of its traded volume frozen |
| `BookMatches` with `frozen_yesterday` | a sell order larger than what is left of yesterday's position freezes less than its volume and releases all of it |
| `MCFutureBook.cfg`, `Told == Holders` | `NetExact`: the account's book with CTP counts the trades of a partly filled order twice |
| `FirstStartsFed` without `FirstRun(Cached)` | a restarted cached answers into a journal the process has left, and the process is started unfed |

### Bounds

* *Journal*: page and frame headers are one unit, a page six, data zero or one unit: a
  page holds one to three frames and PageEnd, and every border test is met on both sides
  and with equality. Two or three pages let the writer roll over and a
  reader follow, be behind or join in between. One reader suffices for the properties
  here: a lazy reader changes nothing another process sees. One crash reaches every
  point of interruption; the theorems hold for any number. The clock allows frames with
  equal and with different gen_times.
* *MergeReader*: three journals (the one in hand, the one left, the one that shows up
  late), two frames in each, three clock values, two disjoins.
* *Practice*: cached and one other apprentice (all exchanges are between the master, cached
  and one process; a second one adds only its own copies of the same frames), one
  kill, at any time after cached is up (`MayKill`). The master stays up.
* *Trading*: two orders out of four requests (two that cross, one larger than the minimum
  volume and one equal to it, one too small, one with a block), one batch, one cancel of each
  order, one crash. Five match modes: `reject` writes what a too small order gets, `fill` the
  single trade of `multiple_transactions` on an order of the minimum volume.
* *CtpSession*: one lost connection, one position request of a client besides the queries of
  the login, one time-out while the answer is still to come; a front that never refuses and
  one that does (`faulty`). That gives up to six queries in the queue and an answer that is
  late by one query.
* *CtpOrders*: two orders of two lots (a partial fill, and two orders to confuse), one cancel,
  two sessions of the front, one restart, any number of queries.
* *CtpMarketData*: two instruments, four commands of clients, two lost connections, two
  refusals by the library, two quotes.
* *Gateway*: two sessions, one instrument and five scenarios, each the smallest in which its
  question arises: one service and three requests (both sessions subscribe, one cancels or
  leaves); a restart of the service; a service that loses its front, with the ledger
  publishing states; two services for one instrument; a trader that restarts while its
  strategy is watched and an order is issued.
* *FutureBook*: three setups (the simulated broker with three orders, with merged positions
  and two, CTP with two), five requests on both sides that open and close yesterday's, today's
  or either position, one quote at a higher or lower price, one query of the day's trades.

`CHECK_DEADLOCK FALSE` is set in every configuration: the bounded systems stop when
their frames, clock or kills are used up, and the real ones idle when nobody writes.

### Fairness

`Journal`: the steps of each reader, and of a writer inside a constructor, `open_frame`
or `close_frame`, are weakly fair, since the operating system schedules every process
and no step waits for another. Opening a frame, joining, crashing and ticking are not
fair. `MergeReader`: polling, finishing a handler and finishing a frame that was stamped.
`Practice`: every event loop runs, nng delivers a check-in to a master that is up (a PUSH
socket, connected before the check-in is sent), the health check comes every second,
and every process is started once; kills and restarts are not fair. `Trading`: both event
loops run, the batch call that was begun returns, the trader is started again and the master
links the two; orders, cancels and crashes are not fair. `CtpSession`: the event loop swaps
and runs its tasks and the timer pumps the queue; the library's thread makes progress: it
connects again, as the vendor's library does by itself, and passes on the front's answer to
the oldest request, which may be an error or, when `faulty`, no answer at all. A front that drops the line does
so finitely often. `CtpMarketData`: the event loop drains its queue, the one-second timer
runs, the library reconnects and the front answers a login. `Gateway`: the event loops of the
gateway and the ledger run; a market data service that is up gets its front, its journals from
the master, and reads them. What clients do, deaths and restarts are not fair. `CtpOrders`
and `FutureBook` state safety only.

## 4. Proofs

`JournalProofs` proves **`TypeCorrect`**: `Spec => []TypeOK` for all sizes, data
lengths, readers (low-latency ones too), any skew and with stores reordered. TypeOK is
not inductive: that an address stored in `endAt` or reached by `NextAddress` lies in
the page is known only from the control point, so the proof carries
`TypeInv == TypeOK /\ Ranges`. It assumes `SizeAssumption` (headers are not
empty and a page holds at least a header and two frames), `ProcAssumption` and
`BoundAssumption`, which TLC evaluates in every run.

It also proves **`ChainCorrect`**: under `Sane`, `Spec => []ChainInv`, and from it
**`NeverTorn`**, **`NeverOverrun`**, **`PagesReady`** and **`WriterFindsEnd`**, for any page
size, set of readers (low-latency ones included), page and frame bounds and any number
of crashes. `Sane` says that stores are seen in program order, that no clock is behind
and that every frame fits an empty page; the table in section 3 shows that each of the
three is needed.

The argument: call an offset a *head* when it is the first of an initialised page or
lies right behind a published frame (`num` > 0). Readers only ever add the length of a
visible frame to their cursor, so what has to be known is that
every cursor, every `last_frame_position` and every PageEnd stands on a head
(`CursorInv`, `PageInv`), that a head never holds left-over data bytes and that a visible
frame on it is complete and leads to the next head (`HeadInv`), that all heads of a page
but the last carry visible frames (`OrderInv`), that no frame is from the future, so the
constructor's seek passes all of them (`TimeInv`), that the pages behind the writer's are
blank and the offsets behind its cursor no heads (`WriterInv`), and how far the frame being
written has got (`StoreInv`). None of the four safety properties is inductive without these:
after a crash the bytes behind the last frame hold whatever the dead writer left, and only
the heads tell which of them a process can ever look at. `ChainInv` was checked with TLC
(run `journal_crash`) before it was proved. The proof has one lemma per action and
one step per conjunct the action disturbs.

It further proves **`NeverOverwritten`** (`Spec => AppendOnly`) and
**`LogImplemented`** (`Spec => ImplementsLog`, the step simulation of `JournalLog`) under
`Calm`: `Sane`, no crash of the writer, and no low-latency reader. The last two are needed, as
section 3 shows: a crash before `set_last_frame_position` and a reader that maps pages
read-write both let the code break `AppendOnly`. `LogInv`, which TLC checked on the instance of
`journal_safe` first, says what `ChainInv` leaves open:
positions are numbered without gaps, also from PageEnd to the first frame of the next page
(`NumInv`); nothing is written before the writer's constructor is through (`StartInv`); the
address behind `last_frame_position` is where the writer stands, or where PageEnd goes, and
nothing behind it is visible (`EndInv`); and wherever a reader stands, also while it loads the
next page, the number there follows the last one it was handed, or is 1 (`ReadInv`). Every
action either publishes the next number (`StoreLength`), hands over the number that is due
(`Deliver`), lets a reader join (`Join` with from_time 0), or leaves the log as it is.

The other proofs each carry one inductive invariant per module, with a lemma for every action.
All of them hold for any sets of processes and for any bounds; the assumptions are the types
of the constants (`MergeAssumption`, `PracticeAssumption`, `TradingAssumption`,
`MarketDataAssumption`, `SessionAssumption`, `OrdersAssumption`, `GatewayAssumption`,
`FutureAssumption`), evaluated by TLC in every run, and for the gateway that there are finitely many instrument ids, which are strings of fixed
width in the code: a session asks for finitely many at once.

* **`EventLoopProofs`**, on `MergeReader`: `ReaderTypes`, `HandedExactlyOnce`. `HandInv`
  adds to `TypeOK` and `ExactlyOnce` that while handlers look at a frame its journal stays joined, the frame
  stays under the cursor, and `current_` is that journal unless a disjoin has moved it. The
  work is in `sort`: which journal becomes `current_` after a join or a disjoin inside a handler, for any set of journals.
* **`PracticeProofs`**: `PracticeTypes`, `LookupsFound`, `StartsFed`, `RegistriesAgree`, for any
  set of apprentices and any number of processes killed. A process merges its journals by
  gen_time but joins them one after the other, so what has to be known is what it *will* have
  done when it comes to a frame. `Due(q)` is what the master has written for q and q has
  not read; everything is said over it: `Knows`, `Writes`, `Opens` and `Believes` hold if
  the state of q has it, or if a due frame before the one in question brings it.
  `PracticeInv` then consists of
    * `MetInv`: a process in its first run is registered, once, from its check-in on, and before
      that no frame and no table names it (`Fresh`); no Deregister names it while it runs;
    * `JoinInv`: the Register that makes a process join its command journal comes before
      everything in that journal, so its due frames are handled in the order of the log (`NextDue`);
    * `LookupInv`, `AnswerInv`: every request and answer that is due is preceded by the frames
      that open what its handler looks up; hence no lookup throws in a first run
      (`NoThrow`, `BrokenInv`);
    * `StateInv`, `GoneInv`: a RequestCachedDone or RequestStart for q is preceded by a State
      that q has read or will read, and cached writes no State after its Deregister;
    * `BeliefInv`, `LoneInv`: what q takes for live, or will once it has read what is due, is
      what the master's registry holds.

  Every action is first reduced to an effect (`CheckInEffect`, `HealthEffect`, `RequestEffect`,
  `FrameEffect`, `BootEffect`, `CrashEffect`: the frames it adds and the tables it changes), and
  each part of the invariant is then proved for a step of the master (`...Master`), of the
  process itself (`...Good`) and of another process (`...Idle`). The exceptions in the theorems
  are those of the properties: a process that is started again may meet requests meant for
  its last run, which TLC shows.
* **`TradingProofs`**: `TradingTypes`, `FinalsStay`, `TradesSum`, `BookAgrees`, for any orders,
  batches, match modes and number of crashes, under one hypothesis, `~EagerCancel`: the strategy
  cancels only what it has heard of. Without it TLC finds an order that is reported final twice
  (section 3). None of the four properties is inductive: `FinalStays` speaks of frames already
  written, but what breaks it is an order that waits in a batch, in the journal or in
  the trader's map when a crash cuts a handler short. `TradingInv` consists of
    * `SentInv`: the ids of the order inputs are 1, 2, ..., each sent once;
    * `LogInv`: every report is of an order that was sent, with its side, price and volume
      (`Matching`); only the modes `pend` and `partialfill` leave an order open (`Sound`); a trade comes
      after a report of its order (`Ordered`); all reports of an order have the same
      volume_left and only the last is final (`Ended`); trades and volume_left never exceed the
      volume, also of an order whose handler was cut short (`Bounded`);
    * `AddsUp`: they are the volume, for an order that was neither cut short nor refused;
    * `TraderInv`: what the trader has in `orders` is the latest report of an order
      (`Entered`); an input that is batched, or still ahead of a trader that is linked, has no
      report yet (`Waiting`); there are cancels only in modes that leave orders open
      (`Cancels`); the maps are empty until the trader has recovered (`Lifecycle`);
    * `BookInv`: frozen cash, frozen volume and available cash of the book are sums over the
      orders sent, of what the reports *read so far* leave of each. `BookMatches` is the case in
      which all reports are read.

  A handler writes several frames and a crash may come after any of them, so the proof shows
  of every prefix of an answer that it leaves the log sound (`WritingFits`), then of the
  whole answer that it leaves the trader's maps right (`AnswerFits`, `HandleTrader`). Sums are
  recursive functions; that they split over concatenation, a new order and a read frame is
  proved from the least counterexample.
* **`CtpMarketDataProofs`**: `MarketDataTypes`, `FrontFed`. `FrontFollows` speaks of a moment
  at which the queue of callbacks is empty. `FeedInv` says what the queue means while it is
  not: the connection is up exactly when the last news queued is a login, or when there is
  none and the service believes to be logged in (`QueueTellsFront`); then everything
  subscribed is fed, skipped or refused (`AllSent`), and nothing else is (`NothingStray`).
* **`EventLoopProofs`**, on `CtpSession`: `OverlapExplained`. The invariant follows the one answer that will
  clear `query_in_flight` from the front to the task queue to the tasks swapped out:
  unless the two causes named by `OverlapCause` have occurred, it is in at most one of the
  three places, once, and while it is anywhere the flag is set (`OneInFlight`).
* **`CtpOrdersProofs`**: `ReportsAttributed`, `EndsHeard`. `OrdersInv` says that a notification
  carries the ref of its order (`NotesInv`), that sessions are numbered upwards and the
  trader learns of a session before it hears of its orders (`LoginInv`), that whatever the
  maps or the journal name has the ref it is filed under (`MapInv`), that refs
  are not used twice before a restart (`BookInv`), and that an order of the lasting session
  is mapped until its end is heard, the end being still to come or on its way (`Tracked`).
* **`GatewayProofs`**: `ChannelsShared` and `OrdersRouted` from `GatewayInv`: a session comes
  from a connection that was accepted (`Arrived`), only connections that have ended are
  cleaned up (`Gone`), order numbers are new (`Numbered`), and no table gives an order to
  another session (`Routed`). `GatewayTypes` needs `LinkInv`, that no state of a service
  reaches the client after its deregistration, and holds under a hypothesis on the
  scenarios: with a ledger and a death, the repeated `Ready` of the dead service
  (`gateway_ledger`) makes a service ready that has no connection. `SharedFeeds` proves
  `ServedExactly` under the same hypothesis. The property speaks of a moment with nothing in
  flight; `ServedInv` says what holds at any other:
    * `Shared`: a session that wants an instrument has asked one service for it, the one it is
      replayed to, and an instrument is replayed as long as a session wants it;
    * `Fed`: what a service serves once it has applied the commands in its channel (`Follows`)
      is due from it, and all that is due from it if it is ready and not about to be
      deregistered;
    * `Fresh`, `Buried`: a service that has not read its channel since it came up serves
      nothing, and one that is down while the gateway has it as ready, or will, has its
      deregistration still to come, so the repeated subscriptions of `renew` are not lost;
    * `Heard`: that a service is ready is something the gateway knows or will hear last of it,
      from the service or from the ledger's memory of its state.

  Instruments two clients fetch from different services are excluded, as in the property
  (`crossed`).

* **`FutureBookProofs`**: `BookTypes`, `CashConserved`, `NetIsExact`, `AllReleased`,
  `NeverOversold`, for any requests, prices, fees, fills, queries and quotes. Every method of the futures accounting has an effect lemma
  that says what it adds to cash, margin, frozen volume and position
  (`InputEffect`, `OrderEffect`, `OpenEffect`, `CloseEffect`, `SettlementEffect`) and that the
  balance of the book is unchanged; `CashConserved` follows for every frame and every destination
  of a frame. `NetExact` speaks of a moment without pending notifications. `NetInv` says what is
  true at any other: the net position of a book, plus what the trades still to be handled will
  add to it, is what was traded. `SimBooksNet` is the same statement along the chain of
  books the simulated broker goes through while it writes the trades of one match. The sums over
  orders, fills and notifications are recursive functions; what they do under `Append`, `Tail`,
  concatenation and a change of one element is proved from the least counterexample
  (`LeastNat`), since the induction rules of the library take an operator as a parameter.

  For `Released` and `NotOversold` the invariant counts, for every order, what the reports
  still to be handled will release of it (`Dues`): `OwedInv` says that the frozen volume of a
  direction is at least the sum of the dues of the closing orders booked in that direction
  (`CoveredBy`), and, as long as nothing odd was told, that it and the frozen cash are just
  what is due (`OwedBy`; of yesterday's volume at most that). `EndInv` says that a live order is
  mapped, that the report of its end comes once, with what is left of it and while it is
  mapped, and that a book knows an order, or will, before it hears of a fill; `BooksInv` that both books are told the same by the
  simulated broker (`Twin`), that without merging positions an order is booked as it was asked
  (`Unmerged`) and that no more of yesterday's volume is frozen than there is (`Aged`). Both
  proofs showed that *flipped* has to be recorded at every report and not at the first one
  alone: a second book may see the order with other positions.

Every safety property of a passing run is a theorem, under the hypotheses named above. Only
model-checked are the properties that are liveness under fairness, which is outside what the
installed provers do, like `ENABLED`: `Broadcast` of `Journal`, `AllDelivered` of
`MergeReader`, `AllStart` of `Practice`, `Answered` of `Trading`, `RestartServed` of `Gateway`
and those of the CTP modules.

## 5. Not modelled

Most of the repository's lines are declarations: the vendor's CTP headers (22,000 lines of
structures, constants and abstract classes), the data types and enumerations of `longfist`,
and third-party code (StackWalker, MurmurHash3, the tests of libraries). They have no
behaviour to model; what the models use of them is in the modules that use it.

* *Journal assembly* (`copy_sink`, `writer::copy_frame`), offline.
* *Replay mode* of the reader's loop (a cap on gen_time) and `end_time_`.
* *Master*: bands, timers, TimeReset and trading day, sessions, restart of the
  master, reuse of pids.
* *Clock anchor* and *cached*: the anchor file, the feed queues and the store loop.
* *I/O*: nng sockets, paths, logging, SQLite, Qt client; generated files.
* *Trading*: restarts of the strategy, margin trading, bonds, repos and crypto; the simulated
  order book inside the broker beyond what its match modes report; basket orders.
* *Books*: asset and position snapshots, their synchronisation, mirrored positions; profit.
  `apply_trading_day` is never called in this tree.
* *Broker client*: the resume policies, except the one of the gateway's client.
* *Gateway*: the bytes on the socket and the send queues, the requests that only read, starting
  and stopping strategies.
* *CTP*: authentication details, conversion of fields that no property tells apart.

`PROJECT.json` lists every component with its status and the reason.

## 6. Plan

1. *Done*: the journal, its abstract log and invariant; the merging reader; the start-up
   protocol; the trading core with the stock book; the CTP adapter (session, orders, market
   data); gateway, broker client and market data service; the futures books; the theorems of
   section 4.
2. **Theorems to come**: those of the modules below; for `Trading`, what holds of its book when
   the strategy does cancel orders it has not heard of.
3. **Trading core, continued**: a strategy that restarts (batch mode left on, resume points);
   the simulated order book as a pure algorithm against a reference matcher; the order id
   as `current_frame_uid` computes it, with its 16-bit fields; basket status.
4. **Books**: margin trading, asset and position synchronisation, mirrored positions; an
   abstract account the books refine.
5. **Clock anchor, cached's feed queues, timers, ring queue.**
