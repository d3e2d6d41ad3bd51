\* One import at a time; one is cut short.
CONSTANTS
    i1 = i1
    i2 = i2
    Import = {i1}
    EsiPage = 2
    FullPage = 2
    DefaultPages = 2
    MaxMade = 3
    MaxFailures = 1
SPECIFICATION WalletSpec
PROPERTY TransactionsConverge
CHECK_DEADLOCK FALSE
