----------------------------- MODULE MCTsSink -----------------------------
(* Two runs, one payload parseEvent refuses, seq inputs 0 to MaxSeq + 1.   *)
EXTENDS TsSink

CONSTANTS r1, r2, good, bad, t1

MCRuns == {r1, r2}
MCTypes == {"agent.text", "run.finished"}
MCPayloads == {good, bad}
MCBadPayloads == {bad}
MCTimes == {t1}
=============================================================================
