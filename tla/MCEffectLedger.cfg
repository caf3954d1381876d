\* Three calls race for two keys with two request hashes, in fair transactions.
SPECIFICATION FairSpec
CONSTANTS
    c1 = c1
    c2 = c2
    c3 = c3
    k1 = k1
    k2 = k2
    h1 = h1
    h2 = h2
    None = None
    Calls <- MCCalls
    Keys <- MCKeys
    Hashes <- MCHashes
INVARIANTS
    TypeOK
    ReceiptsAgree
    NoLedgerRace
    WaitsAreForCommits
PROPERTIES
    AtMostOnceEffects
    CallsEnd
\* Every call runs once, so the system stops when all have ended.
CHECK_DEADLOCK FALSE
