CONSTANTS
    Low <- MCLow
    High <- MCHigh
    WordBits <- MCWordBits
    Wrap <- MCWrap
    Prices <- MCPrices
    Narrow <- MCNarrow
    Shares <- MCShares
    Ids = {a}
    MaxOrders = 4
SPECIFICATION FairSpec
INVARIANTS IInv SharesConserved LiveOrdersQueued NullLevelOnlyOffBook
PROPERTIES ExecsReportFills ImplementsExchange HandlerReturns
CHECK_DEADLOCK FALSE
