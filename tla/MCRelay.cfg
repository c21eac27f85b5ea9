SPECIFICATION FairSpec
CONSTANTS
    s1 = s1
    relay = relay
    fine = fine
    over = over
    odd = odd
    bye = bye
    t1 = t1
    SourceRuns <- MCOneRun
    RelayRun = relay
    Types <- MCTypes
    RunFinished = "run.finished"
    CaptureRefused = "capture.refused"
    Payloads <- MCPayloads
    OverBound <- MCOverBound
    Misshapen <- MCMisshapen
    RelayPayload = bye
    Times <- MCTimes
    MaxSeq = 3
PROPERTIES
    EveryValidEventIsCopied
    EveryInvalidEventIsReported
INVARIANTS
    TypeOK
    CopyIsPrefix
    ClosedCopyIsComplete
    NothingPassesAnInvalidEvent
    RefusalsStayTrue
