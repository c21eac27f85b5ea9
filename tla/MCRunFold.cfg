SPECIFICATION FedSpec
CONSTANTS
    r1 = r1
    r2 = r2
    t1 = t1
    start = start
    done = done
    failed = failed
    Runs <- MCRuns
    Types <- MCTypes
    RunFinished = "run.finished"
    RunStarted = "run.started"
    Payloads <- MCPayloads
    Starts <- MCStarts
    Finishes <- MCFinishes
    Times <- MCTimes
    Followed = r1
    MaxSeq = 4
CHECK_DEADLOCK FALSE
INVARIANT
    FoldIsAsDeclared
