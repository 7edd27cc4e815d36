-------------------------- MODULE MCKeepaliveLoop --------------------------
(* KeepaliveLoop in surroundings that are followed one at a time.          *)
EXTENDS KeepaliveLoop, TLC

Around(events, gates, results, budget, threshold, forced, rounds) ==
    [events |-> events, gates |-> gates, results |-> results, budget |-> budget,
     threshold |-> threshold, forced |-> forced, rounds |-> rounds]
PassingGate == {"success"}

\* Every round may be disturbed.
Rough == {
    \* the budget is raised, a forced round is asked for, runs fail
    Around({"check", "raise"}, PassingGate, {"success", "failure"}, 1, 1, 1, 4),
    \* stop labels, scope violations, tasks reopened at any time
    Around({"check", "open", "pause", "scope"}, PassingGate, {"success"}, 3, 1, 0, 2),
    \* acceptance criteria, deterministic gates, an emptied checklist
    Around({"criteria", "clear"}, PassingGate, {"success", "cancelled"}, 3, 1, 0, 2),
    \* merge conflicts, lost answers, runs that fail for unknown reasons
    Around({"conflict", "unpublished", "unanswered", "unread"}, PassingGate,
           {"success", "transient", "quiet"}, 1, 1, 1, 2),
    \* exhausted quotas, a Gate that fails or is cancelled
    Around({"quota"}, {"success", "failure", "cancelled"}, {"success"}, 3, 1, 0, 2)}

\* The loop is left to come to its end.
Smooth == {
    \* tasks reopen while the Gate flips and its events wait
    Around({"check", "open"}, {"success", "failure"}, {"success"}, 3, 2, 0, 4),
    \* agents and the verifier fail in every order
    Around({}, PassingGate, {"success", "failure"}, 3, 2, 0, 6)}

\* Agents only ever fail.
Failing == {Around({}, PassingGate, {"failure"}, 2, 2, 0, 5)}
=============================================================================
