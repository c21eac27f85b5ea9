--------------------------- MODULE MCRunFollower ---------------------------
(* One run; lifecycle events with the right, the wrong or a broken payload. *)
EXTENDS RunFold

CONSTANTS r1, t1, start, done, failed, junk

MCRuns == {r1}
MCTypes == {"run.started", "agent.text", "run.finished"}
MCTimes == {t1}
MCPayloads == {start, done, failed, junk}
MCStarts == {start}
MCFinishes == {done, failed}
=============================================================================
