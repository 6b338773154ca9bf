---------------------------- MODULE MCFutureBook ----------------------------
EXTENDS FutureBook

Of(side, offset, price, volume) == [side |-> side, offset |-> offset, price |-> price, volume |-> volume]

\* Both sides; opening at two prices, closing yesterday's, today's and either.
MCRequests == {Of("Buy", "Open", 2, 2), Of("Sell", "Open", 2, 1),
               Of("Sell", "Close", 1, 2), Of("Sell", "CloseToday", 2, 1), Of("Buy", "Close", 2, 1)}

MCSetups == {[broker |-> "sim", merge |-> FALSE, holding |-> 2, orders |-> 3],
             [broker |-> "sim", merge |-> TRUE, holding |-> 1, orders |-> 2],
             [broker |-> "ctp", merge |-> FALSE, holding |-> 2, orders |-> 2]}

\* The CTP trader alone.
MCCtpSetups == {s \in MCSetups : s.broker = "ctp"}

MCFees == [open |-> 1, close |-> 1, today |-> 2]
=============================================================================
