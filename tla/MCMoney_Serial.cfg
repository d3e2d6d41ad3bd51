\* One request at a time; a call fails or the process dies once.
SPECIFICATION MoneyFairSpec
CONSTANTS
    j = j
    n = n
    User <- MCUser
    Request = {r1}
    NoUser = NoUser
    NoIsk = NoIsk
    Invested <- MCInvested
    Profits <- MCProfits
    Cap = 9
    Extra <- MCExtra
    Custom <- MCCustom
    AutoRollover <- MCAuto
    JingleYield = {j}
    Locked <- MCLocked
    OptedOut = {}
    MaxFailures = 1
INVARIANTS
    MoneyTypeOK
PROPERTIES
    SnapshotStands
    RolledOnce
    DeductionBalances
    RecoveryCompletes
