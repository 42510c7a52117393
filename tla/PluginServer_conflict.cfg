CONSTANTS
    Sessions = {s1, s2}
    Stores = {d1, d2}
    Keys = {k1}
    Txs = {t1}
    Serve = serve
    Other = other
    None = none
    Methods = {"get_issue", "raw_sql", "claim_issue", "create_issue",
               "pull_from", "remove_federation_peer"}
    MaxAttempts = 2
    Patient = TRUE
SPECIFICATION Spec
INVARIANT SurvivesConflict
