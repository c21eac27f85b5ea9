------------------------------ MODULE RunLog ------------------------------
(***************************************************************************)
(* What an ethogram sink promises, without saying how it keeps the promise *)
(* (README "The envelope"): the history of a run is an append-only list of *)
(* facts, the position of a fact in the list is its sequence number, and a *)
(* terminal fact closes the list for good.                                 *)
(*                                                                         *)
(* A fact is a stamped event without its runId and seq: both are implied   *)
(* by the place the log keeps it at.                                       *)
(***************************************************************************)
EXTENDS Naturals, Sequences

CONSTANTS
    Runs,           \* the run ids
    Facts,          \* what can be recorded
    TerminalFacts   \* the facts, among Facts, that close a run

VARIABLE log        \* log[r] is the history of run r, oldest fact first

Closed(r) == \E i \in DOMAIN log[r] : log[r][i] \in TerminalFacts

Init == log = [r \in Runs |-> <<>>]

Record(r, f) ==
    /\ ~Closed(r)
    /\ log' = [log EXCEPT ![r] = Append(@, f)]

Next == \E r \in Runs, f \in Facts : Record(r, f)

Spec == Init /\ [][Next]_log
=============================================================================
