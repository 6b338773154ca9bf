----------------------------- MODULE MCTrading -----------------------------
EXTENDS Trading

\* with a minimum volume of 2: two orders that cross, one larger than the minimum and one exactly
\* as large, one too small, one with a block
MCRequests == {[side |-> "Buy",  price |-> 2, volume |-> 3, block |-> FALSE],
               [side |-> "Sell", price |-> 1, volume |-> 2, block |-> FALSE],
               [side |-> "Sell", price |-> 3, volume |-> 1, block |-> FALSE],
               [side |-> "Buy",  price |-> 1, volume |-> 3, block |-> TRUE]}
=============================================================================
