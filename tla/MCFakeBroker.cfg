CONSTANTS
    sym = sym
    Symbols = {sym}
    StartingNav = 100
    Requests <- MCRequests
    Quotes = {9, 12}
    MaxOrders = 4
SPECIFICATION BrokerSpec
INVARIANT PendingIsOpen
INVARIANT BooksBalance
PROPERTY IsOrderBook
