SPECIFICATION SettleGateSpec
CONSTANTS
    Clones = {a, b}
    Nobody = nobody
    Absent = absent
    Plans <- Few
    CaptureMayFail = FALSE
    Strategies = {"", "ours", "theirs"}
    Machines = {main, topic, fresh}
    Designated = {main}
    Branched = {topic}
    Rewritten = {4}
    Latest = 4
    LastNonDeterministicMigration = 2
INVARIANTS NothingUnsettledSucceeds UncommittedWorkKept RemoteWins StrategyFollowed SchemasConverge
PROPERTY HashesKept
SYMMETRY Symmetry
