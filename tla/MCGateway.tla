----------------------------- MODULE MCGateway -----------------------------
\* Small instances of Gateway: one service that restarts and loses its front, two
\* services for one instrument, a trader that restarts.
EXTENDS Gateway

MCScenarios ==
  LET feeds == {"request_market_data", "cancel_market_data"}
      watch == {"subscribe_strategy", "unsubscribe_strategy", "issue_order"}
  IN  {[procs |-> {"md1"}, methods |-> feeds, requests |-> 3, starts |-> 1, deaths |-> 0, resets |-> 0, ledger |-> FALSE],
       [procs |-> {"md1"}, methods |-> feeds, requests |-> 2, starts |-> 2, deaths |-> 1, resets |-> 0, ledger |-> FALSE],
       [procs |-> {"md1"}, methods |-> feeds, requests |-> 1, starts |-> 1, deaths |-> 0, resets |-> 1, ledger |-> TRUE],
       [procs |-> {"md1", "md2"}, methods |-> {"request_market_data"},
        requests |-> 2, starts |-> 2, deaths |-> 0, resets |-> 0, ledger |-> FALSE],
       [procs |-> {"td"}, methods |-> watch, requests |-> 2, starts |-> 2, deaths |-> 1, resets |-> 0, ledger |-> FALSE]}

\* a service restarts while the ledger runs
MCLedgerScenarios ==
  {[procs |-> {"md1"}, methods |-> {"request_market_data"}, requests |-> 1, starts |-> 2,
    deaths |-> 1, resets |-> 0, ledger |-> TRUE]}
=============================================================================
