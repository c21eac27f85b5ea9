------------------------------ MODULE MCSink ------------------------------
(* Two runs, one ordinary and the terminal type, a clock with two answers. *)
EXTENDS Sink

CONSTANTS r1, r2, t1, t2, p1

MCRuns == {r1, r2}
MCTypes == {"agent.text", "run.finished"}
MCTimes == {t1, t2}
MCPayloads == {p1}
=============================================================================
