------------------------------ MODULE MCRelay ------------------------------
(* One producer run; a payload that is fine, one over the bounds and one   *)
(* that is misshapen.                                                      *)
EXTENDS Relay

CONSTANTS s1, relay, fine, over, odd, bye, t1

MCOneRun == {s1}
MCTypes == {"agent.text", "run.finished"}
MCPayloads == {fine, over, odd}
MCOverBound == {over}
MCMisshapen == {odd}
MCTimes == {t1}
=============================================================================
