SPECIFICATION Spec
CONSTANTS
    Setups <- MCSetups
    Requests <- MCRequests
    Fees <- MCFees
    Quotes = {1, 3}
    MaxQuotes = 1
    MaxQueries = 1
INVARIANT TypeOK
INVARIANT Conserved
INVARIANT NetExact
INVARIANT Released
INVARIANT NotOversold
CHECK_DEADLOCK FALSE
