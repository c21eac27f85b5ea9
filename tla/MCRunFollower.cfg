SPECIFICATION FollowerSpec
CONSTANTS
    r1 = r1
    t1 = t1
    start = start
    done = done
    failed = failed
    junk = junk
    Runs <- MCRuns
    Types <- MCTypes
    RunFinished = "run.finished"
    RunStarted = "run.started"
    Payloads <- MCPayloads
    Starts <- MCStarts
    Finishes <- MCFinishes
    Times <- MCTimes
    Followed = r1
    MaxSeq = 3
INVARIANTS
    FollowedRunsAreCoherent
    OverIsOver
PROPERTY
    ViewGoesForward
