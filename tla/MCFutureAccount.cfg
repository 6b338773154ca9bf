SPECIFICATION Spec
CONSTANTS
    Setups <- MCCtpSetups
    Requests <- MCRequests
    Fees <- MCFees
    Quotes = {1, 3}
    MaxQuotes = 0
    MaxQueries = 0
INVARIANT AccountExact
CHECK_DEADLOCK FALSE
