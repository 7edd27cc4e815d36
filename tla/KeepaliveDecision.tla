------------------------- MODULE KeepaliveDecision -------------------------
(***************************************************************************)
(* What one keepalive round decides: evaluateKeepaliveLoop of              *)
(* keepalive_loop.js, from a snapshot p of the pull request, the persisted *)
(* state s, and the facts f the round looks up (Gate, conflicts, quota).   *)
(***************************************************************************)
EXTENDS Integers

\* Thresholds of the code: fixAttemptMax, zeroActivityThreshold, the default
\* of completeGateFailureMax, and maxVerificationAttempts.
FixAttemptMax == 2
ZeroActivityThreshold == 2
CompleteGateFailureMax == 3
MaxVerificationAttempts == 2
\* The model runs reviews after ReviewThreshold rounds (4 in the code).
ReviewThreshold == 3

GateConclusions == {"success", "failure", "cancelled", "none"}
\* The Gate's conclusion: the one its own event reports, whatever head it ran
\* on; else that of the newest run.  A failed lookup reads as no conclusion.
GateHeard(event, current) == IF event = "none" THEN current ELSE event

\* What the jobs of the Gate run show: one that failed makes the failure
\* fixable, one that met the API's limits excuses a cancellation.
JobFacts == {"failed", "limited"}
Fixable(f) == "failed" \in f.jobs
GateLimited(f) == "limited" \in f.jobs
\* Every token's quota is below the 50 requests a round needs; a forced round
\* goes ahead all the same.
Defers(f, force) == f.exhausted /\ ~force

\* The routing labels of a pull request, as resolved: one eligible runner; no
\* agent label; several concrete labels; the delegation policy blocked by an
\* exhausted quota or a failed install; an agent whose runner is not declared.
Routes == {"agent", "none", "many", "blocked", "unavailable"}
Stops == {"none", "paused", "needs-human", "run-cap-zero"}
Execution == {"run", "fix", "conflict"}

Verifications == {"none", "done", "failed"}
NoVerification == [status |-> "none", iteration |-> 0, attempts |-> 0]

----------------------------------------------------------------------------
\* What the stop labels of an operator say, in the order they are tested.
StopControl(labels) ==
    IF labels \cap {"agents:paused", "agents:pause"} # {} THEN "paused"
    ELSE IF "needs-human" \in labels THEN "needs-human"
    ELSE IF "agents:max-runs:0" \in labels THEN "run-cap-zero" ELSE "none"

Open(p) == p.tasks + p.criteria
TasksPresent(p) == p.total > 0
AllComplete(p) == TasksPresent(p) /\ Open(p) = 0
\* A plan of deterministic gates exists only once no task is open.
GatesPending(p, f) == f.gates /\ TasksPresent(p) /\ p.tasks = 0 /\ ~f.passing

----------------------------------------------------------------------------
\* Rounds without a completed task, counted until a review is due; a forced
\* round starts afresh.
RoundsWithout(p, s, force) ==
    IF force \/ Open(p) < s.open THEN 0
    ELSE s.rounds + (IF s.iteration > 0 THEN 1 ELSE 0)

ReachedBudget(p, s) == s.iteration >= p.max

\* Consecutive rounds in which every task was complete and the Gate failed:
\* only a real failure counts, another conclusion keeps the count, and a
\* successful Gate or open work starts again.
GateFailureRounds(complete, gate, before) ==
    IF complete /\ gate = "failure" THEN before + 1
    ELSE IF complete /\ gate \notin {"success", "none"} THEN before ELSE 0
\* evaluate keeps the count on a pending Gate too: it tests "not success"
\* where the summary asks for a conclusion that is there.
GateFailureRoundsSeen(p, s) ==
    IF AllComplete(p) /\ p.gate = "none" THEN s.gateRounds
    ELSE GateFailureRounds(AllComplete(p), p.gate, s.gateRounds)

NeedsReview(p, s, force) ==
    /\ RoundsWithout(p, s, force) >= ReviewThreshold
    /\ ~AllComplete(p) \/ p.gate # "success"

\* Boolean(verification.iteration): an attempt made at iteration zero is not
\* an attempt.
Attempted(s) == s.verification.iteration # 0
\* Mutant of NeedsVerification: only a failed verification is made up for.
NeedsVerificationLate(p, s) ==
    AllComplete(p) /\ s.verification.status = "failed" /\ ~Attempted(s)

NeedsVerification(p, s) ==
    AllComplete(p) /\ s.verification.status # "done" /\ ~Attempted(s)
NeedsVerificationRetry(p, s, force) ==
    /\ AllComplete(p) /\ s.verification.status = "failed"
    /\ s.verification.attempts < MaxVerificationAttempts \/ force

----------------------------------------------------------------------------
Decision(a, r) == [action |-> a, reason |-> r]

\* A cancelled Gate: work goes on when a rate limit cancelled it.
CancelledGate(p, f, force) ==
    IF Defers(f, force) THEN Decision("defer", "rate-limit-exhausted")
    ELSE IF GateLimited(f)
         THEN IF Open(p) > 0 THEN Decision("run", "bypass-rate-limit-gate")
              ELSE Decision("wait", "gate-cancelled")
    ELSE IF force /\ Open(p) > 0 THEN Decision("run", "force-retry-cancelled")
    ELSE Decision("wait", "gate-cancelled-transient")

\* Every task complete, the Gate not green: fix it twice, then give up.
CompleteGate(p, s, f, force) ==
    IF force THEN Decision("fix", "force-retry-fix")
    ELSE IF Fixable(f) /\ s.fixRounds < FixAttemptMax THEN Decision("fix", "fix-gate")
    ELSE IF GateFailureRoundsSeen(p, s) >= CompleteGateFailureMax
         THEN Decision("stop", "complete-gate-failure-max")
    ELSE Decision("wait", "gate-not-success")

\* Work is open and the Gate is not green: fix it twice, then pass it by.
OpenGate(p, s, f, force) ==
    IF Fixable(f) /\ p.gate = "failure"
    THEN IF s.fixRounds >= FixAttemptMax /\ Open(p) > 0
         THEN Decision("run", "bypass-fix") ELSE Decision("fix", "fix-gate")
    ELSE IF force /\ Open(p) > 0 THEN Decision("run", "force-retry-gate")
    ELSE Decision("wait", IF p.gate = "none" THEN "gate-pending" ELSE "gate-not-success")

NotGreen(p, s, f, force) ==
    IF p.gate = "cancelled" THEN CancelledGate(p, f, force)
    ELSE IF AllComplete(p) THEN CompleteGate(p, s, f, force)
    ELSE OpenGate(p, s, f, force)

\* Every task complete under a green Gate: verify, repair the gaps, or stop.
Finish(p, s, force) ==
    IF NeedsVerification(p, s) THEN Decision("run", "verify-acceptance")
    ELSE IF NeedsVerificationRetry(p, s, force) THEN Decision("run", "fix-verification-gaps")
    ELSE IF s.verification.status # "done" /\ s.verification.attempts >= MaxVerificationAttempts
         THEN Decision("stop", "verification-exhausted")
    ELSE Decision("stop", "tasks-complete")

Green(p, s, f, force) ==
    IF GatesPending(p, f) THEN Decision("run", "verify-acceptance")
    ELSE IF AllComplete(p) THEN Finish(p, s, force)
    ELSE IF ~force /\ s.zero >= ZeroActivityThreshold
         THEN Decision("stop", "zero-activity-infrastructure")
    ELSE IF NeedsReview(p, s, force) THEN Decision("review", "progress-review")
    ELSE Decision("run", "ready")

\* The stop controls of an operator come before any dispatch, a definitive
\* conflict before the checklist, and the budget before the Gate.
Choose(p, s, f, force) ==
    LET stop == StopControl(p.labels) IN
    IF stop # "none" THEN Decision("skip", stop)
    ELSE IF f.conflict /\ p.route \in {"agent", "unavailable"} /\ p.enabled
         THEN Decision("conflict", "merge-conflict")
    ELSE IF p.route = "blocked" THEN Decision("wait", "delegation-blocked")
    ELSE IF p.route = "unavailable" THEN Decision("skip", "no-runner")
    ELSE IF p.route # "agent" THEN Decision("wait", "missing-agent-label")
    ELSE IF ~p.enabled THEN Decision("skip", "keepalive-disabled")
    ELSE IF ~TasksPresent(p) THEN Decision("stop", "no-checklists")
    ELSE IF ReachedBudget(p, s) /\ ~force THEN Decision("stop", "round-budget-exhausted")
    ELSE IF p.gate # "success" THEN NotGreen(p, s, f, force)
    ELSE Green(p, s, f, force)

\* Files outside the declared scope block completion; an exhausted quota
\* defers every action that would run an agent.
ScopeChecked(d, p) ==
    IF d.reason = "tasks-complete" /\ ~p.scoped
    THEN Decision("run", "scope-violation") ELSE d
QuotaChecked(d, f, force) ==
    IF Defers(f, force) /\ d.action \in Execution \cup {"review"} /\ d.reason # "bypass-rate-limit-gate"
    THEN Decision("defer", "rate-limit-exhausted") ELSE d

Decide(p, s, f, force) == QuotaChecked(ScopeChecked(Choose(p, s, f, force), p), f, force)
=============================================================================
