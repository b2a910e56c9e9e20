CONSTANTS
    Low <- MCLow
    High <- MCHigh
    WordBits <- MCWordBits
    Wrap <- MCWrap
    Prices <- MCPrices
SPECIFICATION Spec
INVARIANT BidMaxIsHighest
