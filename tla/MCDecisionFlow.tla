--------------------------- MODULE MCDecisionFlow ---------------------------
(* Module DecisionFlow for TLC: two runs, one of an old producer, that use the *)
(* same decision id for different requests.  One option per request: it is the *)
(* one that onTimeout names, or it is another.                                 *)
EXTENDS DecisionFlow

CONSTANTS new, old, d1, revoke, bye, t1

MCRuns == {new, old}
MCLegacy == {old}
MCRequests ==
    {Request(d1, "permission", {"deny"}, {"deny"}),
     Request(d1, "permission", {"allow"}, {"deny"}),
     Request(d1, "tripwire", {"deny"}, {"deny"})}
MCReversalIds == {revoke}
MCTimes == {t1}
=============================================================================
