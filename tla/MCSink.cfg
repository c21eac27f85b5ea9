SPECIFICATION Spec
CONSTANTS
    r1 = r1
    r2 = r2
    t1 = t1
    t2 = t2
    p1 = p1
    Runs <- MCRuns
    Types <- MCTypes
    RunFinished = "run.finished"
    Payloads <- MCPayloads
    Times <- MCTimes
    MaxSeq = 3
INVARIANTS
    TypeOK
    Gapless
    ClosedByLastEvent
    RefusalIsTrue
PROPERTIES
    AppendOnly
    KeepsPromise
