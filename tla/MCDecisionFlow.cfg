\* Two runs, histories of two: one asks and finishes, the other answers and undoes.
CONSTANTS
    new = new
    old = old
    d1 = d1
    revoke = "revoke:checks"
    bye = bye
    t1 = t1
    Runs <- MCRuns
    Legacy <- MCLegacy
    DecisionRequested = "decision.requested"
    DecisionAnswered = "decision.answered"
    RunFinished = "run.finished"
    Requests <- MCRequests
    Deny = "deny"
    Permission = "permission"
    ReversalIds <- MCReversalIds
    Finish = bye
    Times <- MCTimes
    MaxSeq = 2
SPECIFICATION Spec
INVARIANTS
    TypeOK
    RefusedAnswerIsAnUndo
    NobodyDecidingOnlyDenies
PROPERTY LateAnswerIsRecorded
CHECK_DEADLOCK FALSE
