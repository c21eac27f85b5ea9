SPECIFICATION CalmSpec
CONSTANTS
    r1 = r1
    r2 = r2
    good = good
    bad = bad
    t1 = t1
    Runs <- MCRuns
    Types <- MCTypes
    RunFinished = "run.finished"
    Payloads <- MCPayloads
    BadPayloads <- MCBadPayloads
    Times <- MCTimes
    MaxSeq = 2
    MaxDepth = 2
INVARIANTS
    TypeOK
    ActivationIsFresh
    TerminalIsLast
PROPERTIES
    ImplementsRustSink
