CONSTANTS
    Sessions = {s1, s2}
    Stores = {d1, d2}
    Keys = {k1}
    Txs = {t1}
    Serve = serve
    Other = other
    None = none
    Methods = {"raw_sql", "remove_federation_peer"}
    MaxAttempts = 2
    Patient = TRUE
SPECIFICATION FairSpec
INVARIANTS SessionsHoldOpenStores EndsClean OneWriter
PROPERTIES IsTransactionStore EveryRequestAnswered
