---------------------------- MODULE MCRunFold ----------------------------
(* Two runs, one start, two outcomes, every array of up to MaxSeq events;   *)
(* a start is a malformed finish and the other way round.                  *)
EXTENDS RunFold

CONSTANTS r1, r2, t1, start, done, failed

MCRuns == {r1, r2}
MCTypes == {"run.started", "agent.text", "run.finished"}
MCTimes == {t1}
MCPayloads == {start, done, failed}
MCStarts == {start}
MCFinishes == {done, failed}
=============================================================================
