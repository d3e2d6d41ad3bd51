\* Two imports at once; one is cut short.
CONSTANTS
    i1 = i1
    i2 = i2
    Import = {i1, i2}
    EsiPage = 2
    FullPage = 2
    DefaultPages = 2
    MaxMade = 3
    MaxFailures = 1
SPECIFICATION WalletSpec
INVARIANTS
    WalletTypeOK
    ImportCatchesUp
PROPERTIES
    JournalConverges
CHECK_DEADLOCK FALSE
