--------------------------- MODULE KeepaliveLoop ---------------------------
(***************************************************************************)
(* The keepalive loop of one pull request.  A round evaluates the pull     *)
(* request (KeepaliveDecision), may run an agent, and summarises: the      *)
(* summary recounts the live checklist, writes the state comment, and only *)
(* then clears labels, wakes a forced recovery round or authorises merge.  *)
(* Between those steps people and other workflows change the pull request. *)
(***************************************************************************)
EXTENDS KeepaliveDecision

CONSTANTS
    MaxTasks,           \* tasks and acceptance criteria a checklist may have
    Surroundings        \* what may happen around the loop, one at a time

EventKinds == {"check", "open", "clear", "pause", "conflict", "scope",
               "quota", "criteria", "raise", "unpublished",
               "unanswered", "unread"}
RunResults == {"success", "failure", "transient", "quiet", "skipped", "cancelled"}

\* events and gates: what people and the Gate do; results: how agents fare;
\* forced: bound on the forced rounds people ask for and on those that start
\* without an answer; rounds: bound on the iterations followed, and on those
\* past the budget.
Surrounding ==
    [events : SUBSET EventKinds, gates : {g \in SUBSET GateConclusions : "success" \in g},
     results : SUBSET RunResults, budget : Nat \ {0}, threshold : Nat \ {0},
     forced : Nat, rounds : Nat]
ASSUME LoopAssumption == MaxTasks \in Nat \ {0} /\ Surroundings \subseteq Surrounding

VARIABLES
    pr,         \* the pull request: checklist, Gate, labels
    facts,      \* what a round looks up: conflicts, quota, fixable failures
    st,         \* the state comment
    round,      \* the workflow run in progress
    pending,    \* the run that waits in the concurrency group
    asked,      \* forced rounds that no lease pays for: people asked for them,
                \* their dispatch was not answered, or the budget was raised meanwhile
    crossed,    \* rounds run past the budget since it was set, or an ordinary
                \* round got on or came to the end
    around      \* the surroundings of this behaviour, fixed from the start

vars == <<pr, facts, st, round, pending, asked, crossed, around>>

Events == around.events
Results == around.results
Gates == around.gates
MaxIterations == around.budget       \* the round budget of the pull request
FailureThreshold == around.threshold \* failures of the same kind before the loop stops
ForcedWakes == around.forced
RoundBound == around.rounds

Reasons == {"round-budget-exhausted", "complete-gate-failure-max",
            "verification-exhausted", "zero-activity-infrastructure",
            "agent-run-failed"}
NoFailure == [reason |-> "none", count |-> 0]
NoLease == [reason |-> "none", max |-> 0, status |-> "none"]
FreshState ==
    [iteration |-> 0, failure |-> NoFailure, open |-> 0, total |-> 0, rounds |-> 0,
     zero |-> 0, gateRounds |-> 0, fixRounds |-> 0, verification |-> NoVerification,
     lease |-> NoLease, known |-> FALSE]
Idle == [phase |-> "idle", force |-> FALSE]
Runs == {"none", "wake", "gate", "forced"}
Waiting(kind, gate) == [kind |-> kind, gate |-> gate]
NoRun == Waiting("none", "none")

Least(a, b) == IF a < b THEN a ELSE b
Gap(a, b) == IF a > b THEN a - b ELSE 0
\* Counters that are only compared with a threshold stop growing at it.
Saturated(n, limit) == Least(n, limit)

\* A state that was never written counts the present checklist as its own.
Known(s, p) == IF s.known THEN s ELSE [s EXCEPT !.open = Open(p), !.total = p.total]

Init ==
    /\ around \in Surroundings
    /\ pr = [tasks |-> MaxTasks, criteria |-> 0, total |-> MaxTasks, gate |-> "success",
             labels |-> {}, route |-> "agent", enabled |-> TRUE, scoped |-> TRUE,
             max |-> MaxIterations]
    /\ facts = [conflict |-> FALSE, exhausted |-> FALSE, jobs |-> {"failed"}, gates |-> FALSE,
                passing |-> TRUE]
    /\ st = FreshState
    /\ round = Idle
    /\ pending = NoRun
    /\ asked = 0 /\ crossed = 0 

----------------------------------------------------------------------------
\* Around the loop: people and agents edit the checklist and the labels, the
\* Gate runs again, quota runs out and comes back.
PeopleEdit ==
    \/ /\ "check" \in Events /\ pr.tasks > 0
       /\ pr' = [pr EXCEPT !.tasks = @ - 1]
    \/ /\ "open" \in Events /\ pr.tasks + pr.criteria < pr.total
       /\ pr' = [pr EXCEPT !.tasks = @ + 1]
    \/ /\ "criteria" \in Events
       /\ \/ pr.criteria > 0 /\ pr' = [pr EXCEPT !.criteria = @ - 1]
          \/ Open(pr) < pr.total /\ pr' = [pr EXCEPT !.criteria = @ + 1]
    \/ /\ "clear" \in Events
       /\ \/ pr.total > 0 /\ pr' = [pr EXCEPT !.total = 0, !.tasks = 0, !.criteria = 0]
          \/ pr.total = 0 /\ pr' = [pr EXCEPT !.total = MaxTasks, !.tasks = MaxTasks]
    \/ /\ "pause" \in Events
       /\ \E l \in {"agents:paused", "needs-human", "agents:max-runs:0"} :
             pr' = [pr EXCEPT !.labels = IF l \in @ THEN @ \ {l} ELSE @ \cup {l}]
    \/ "scope" \in Events /\ pr' = [pr EXCEPT !.scoped = ~@]
    \/ /\ "raise" \in Events /\ pr.max = MaxIterations
       /\ pr' = [pr EXCEPT !.max = MaxIterations + 1]

\* What is under way when the budget is raised was paid for by the old one.
UnderWay == round.phase # "idle" \/ pending.kind = "forced"

Edit ==
    /\ PeopleEdit
    /\ crossed' = IF pr'.max # pr.max THEN 0 ELSE crossed
    /\ asked' = IF pr'.max # pr.max /\ UnderWay THEN asked + 1 ELSE asked
    /\ UNCHANGED <<facts, st, round, pending>>

GateRuns ==
    /\ \E g \in Gates \ {pr.gate} : pr' = [pr EXCEPT !.gate = g]
    /\ UNCHANGED <<facts, st, round, pending, asked, crossed>>

FactsChange ==
    /\ \/ "conflict" \in Events /\ facts' = [facts EXCEPT !.conflict = ~@]
       \/ "quota" \in Events /\ facts' = [facts EXCEPT !.exhausted = ~@]
       \/ /\ "quota" \in Events
          /\ \E jobs \in SUBSET JobFacts : facts' = [facts EXCEPT !.jobs = jobs]
       \/ /\ "criteria" \in Events
          /\ \/ facts' = [facts EXCEPT !.gates = ~@]
             \/ facts' = [facts EXCEPT !.passing = ~@]
    /\ UNCHANGED <<pr, st, round, pending, asked, crossed>>

\* A label or the sweep wakes the loop: the newest waiting run of the
\* concurrency group replaces the one that waits.
Wake ==
    /\ pending.kind # "wake"
    /\ pending' = Waiting("wake", "none")
    /\ UNCHANGED <<pr, facts, st, round, asked, crossed>>

\* A finished Gate wakes the loop, and its event carries the conclusion.
GateWakes ==
    /\ Gates # {"success"} /\ pr.gate # "none"
    /\ pending' = Waiting("gate", pr.gate) /\ pending' # pending
    /\ UNCHANGED <<pr, facts, st, round, asked, crossed>>

\* Someone dispatches the workflow with force_retry.
AskForced ==
    /\ asked < ForcedWakes /\ pending.kind # "forced"
    /\ asked' = asked + 1 /\ pending' = Waiting("forced", "none")
    /\ UNCHANGED <<pr, facts, st, round, crossed>>

----------------------------------------------------------------------------
Counts(p) == [tasks |-> p.tasks, criteria |-> p.criteria, total |-> p.total]

\* evaluateKeepaliveLoop: the snapshot and the decision of the round.
Evaluate ==
    /\ round.phase = "idle" /\ pending.kind # "none"
    /\ st.iteration <= RoundBound /\ crossed <= RoundBound
    /\ LET force == pending.kind = "forced"
           s == Known(st, pr)
           p == [pr EXCEPT !.gate = GateHeard(pending.gate, pr.gate)]
           d == Decide(p, s, facts, force)
       IN  round' = [phase |-> IF d.action \in Execution THEN "agent" ELSE "summary",
                     force |-> force, action |-> d.action, reason |-> d.reason,
                     gate |-> p.gate, max |-> pr.max, result |-> "none", seen |-> Counts(pr),
                     started |-> FALSE, files |-> FALSE]
    /\ pending' = NoRun
    /\ UNCHANGED <<pr, facts, st, asked, crossed>>

\* The run-* job of the agent: it may check tasks off, itself or through
\* autoReconcileTasks; a skipped or cancelled job may not have started.
\* Criteria are checked off by a verifier's round.
Agent ==
    /\ round.phase = "agent"
    /\ \E result \in Results, done \in 0..pr.tasks, files \in BOOLEAN :
          /\ result \in {"skipped", "cancelled"} => done = 0 /\ ~files
          /\ round' = [round EXCEPT !.phase = "summary", !.result = result, !.files = files,
                                    !.started = result \notin {"skipped", "cancelled"}]
          /\ pr' = [pr EXCEPT !.tasks = @ - done,
                              !.criteria = IF round.reason = "verify-acceptance"
                                              /\ result = "success" THEN 0 ELSE @]
          /\ crossed' = IF round.action \in {"run", "fix"} /\ result = "success"
                           /\ st.iteration >= pr.max THEN crossed + 1 ELSE crossed
    /\ UNCHANGED <<facts, st, pending, asked>>

----------------------------------------------------------------------------
(* The summary, as operators on the persisted state s and the live checklist. *)

\* Mutant of Settled: a completed checklist is taken for a changed one.
SettledNever(r, p) ==
    IF r.reason = "tasks-complete" /\ p.total > 0
    THEN [r EXCEPT !.action = "wait", !.reason = "tasks-changed"] ELSE r

\* Mutant of Settled: the checklist is not read again.
SettledBlindly(r, p) == r

\* Gates that no longer pass, and work that reopened after the evaluation,
\* withdraw a completion.
Settled(r, p) ==
    IF r.reason # "tasks-complete" THEN r
    ELSE IF GatesPending(pr, facts)
         THEN [r EXCEPT !.action = "wait", !.reason = "deterministic-gates-pending"]
    ELSE IF Open(p) > 0
         THEN [r EXCEPT !.action = "wait", !.reason = "tasks-changed"]
    ELSE r

SuccessStop(r) == r.reason = "tasks-complete"
NeutralStop(r) == r.reason \in {"no-checklists", "keepalive-disabled"}
BadStop(r) == r.action = "stop" /\ ~SuccessStop(r) /\ ~NeutralStop(r)

\* A run failed for a reason of the agent: neither skipped nor cancelled nor,
\* for a plain run, classified as a hiccup of the infrastructure.
Hiccup(r) == r.action = "run" /\ r.result = "transient"
AgentFailed(r) ==
    /\ r.action \in {"run", "fix"} /\ ~Hiccup(r)
    /\ r.result \in {"failure", "quiet", "transient"}

Counted(failure, reason) ==
    [reason |-> reason,
     count |-> IF failure.reason = reason
               THEN Saturated(failure.count + 1, FailureThreshold) ELSE 1]

TransientWait(r) ==
    r.reason \in {"gate-pending", "missing-agent-label", "gate-cancelled",
                  "gate-cancelled-transient", "rate-limit-exhausted"}

NextFailure(s, r) ==
    IF r.action \in {"run", "fix"}
    THEN IF r.result = "none" THEN s.failure
         ELSE IF AgentFailed(r) THEN Counted(s.failure, "agent-run-failed") ELSE NoFailure
    ELSE IF r.action = "stop"
         THEN IF BadStop(r) THEN Counted(s.failure, r.reason) ELSE NoFailure
    ELSE IF r.action \in {"wait", "defer"} /\ TransientWait(r) THEN NoFailure
    ELSE s.failure

RepeatedFailure(s, r) ==
    AgentFailed(r) /\ NextFailure(s, r).count >= FailureThreshold
StopsNow(s, r) == BadStop(r) \/ RepeatedFailure(s, r)
StopReason(s, r) == IF BadStop(r) THEN r.reason ELSE "agent-run-failed"

\* The round is escalated: a failed or unstarted run, or a stop, that the
\* classifier does not call transient.  A failure without an exit code is
\* transient until it repeats.
Escalates(s, r) ==
    \/ StopsNow(s, r)
    \/ r.action \in {"run", "fix"} /\ r.result = "failure"
    \/ r.action = "fix" /\ r.result \in {"quiet", "skipped", "cancelled"}

NextIteration(s, r) ==
    IF r.action \in {"run", "fix"} /\ r.result = "success" THEN s.iteration + 1 ELSE s.iteration

NextRounds(s, r, p) ==
    IF r.force \/ r.action = "review" THEN 0
    ELSE Saturated(RoundsWithout(p, s, FALSE), ReviewThreshold)

ChecklistChanged(s, p) == s.open # Open(p) \/ s.total # p.total
NextZero(s, r, p) ==
    LET before == IF r.force THEN 0 ELSE s.zero IN
    IF r.action \notin Execution THEN before
    ELSE IF s.iteration > 0 /\ ~r.files /\ ~ChecklistChanged(s, p)
         THEN Saturated(before + 1, ZeroActivityThreshold) ELSE 0

NextFixRounds(s, r) ==
    IF r.action = "fix" THEN Saturated(s.fixRounds + 1, FixAttemptMax)
    ELSE IF r.action \in Execution THEN 0 ELSE s.fixRounds

\* Mutant of NextVerification: a failed attempt is not counted.
VerificationUncounted(s, r, p) ==
    IF Open(p) > 0 THEN NoVerification
    ELSE IF r.reason \in {"verify-acceptance", "fix-verification-gaps"}
         THEN [status |-> IF r.result = "success" THEN "done" ELSE "failed",
               iteration |-> NextIteration(s, r), attempts |-> s.verification.attempts]
    ELSE s.verification

\* The verification a round leaves behind: open work withdraws it, a verifying
\* round records its verdict, and a repaired gap asks for a fresh one.
NextVerification(s, r, p) ==
    LET attempts == Saturated(s.verification.attempts + 1, MaxVerificationAttempts)
        verdict(status) == [status |-> status, iteration |-> NextIteration(s, r),
                            attempts |-> attempts]
    IN  IF Open(p) > 0 THEN NoVerification
        ELSE IF r.reason = "verify-acceptance"
             THEN verdict(IF r.result = "success" THEN "done" ELSE "failed")
        ELSE IF r.reason = "fix-verification-gaps"
             THEN IF r.result = "success" THEN [NoVerification EXCEPT !.attempts = attempts]
                  ELSE verdict("failed")
        ELSE s.verification

\* One recovery lease: a terminal boundary the automation owns gets one forced
\* round; the round that ran an agent consumes it, one that did not defers it.
Boundary(s, r) == [reason |-> StopReason(s, r), max |-> r.max]
LeaseMatches(s, r) ==
    /\ StopsNow(s, r)
    /\ Boundary(s, r) = [reason |-> s.lease.reason, max |-> s.lease.max]
\* Mutant of IssuesLease: a consumed lease does not count.
IssuesLeaseAgain(s, r) ==
    /\ StopsNow(s, r) /\ ~r.force
    /\ ~(LeaseMatches(s, r) /\ s.lease.status = "issued")

IssuesLease(s, r) ==
    /\ StopsNow(s, r) /\ ~r.force
    /\ ~(LeaseMatches(s, r) /\ s.lease.status \in {"issued", "consumed"})
ForcedAgentRan(r) == r.action \in Execution /\ r.started
OrdinaryProgress(s, r, p) ==
    /\ ~r.force /\ r.action \in Execution /\ r.result = "success"
    /\ r.files \/ ChecklistChanged(s, p)

NextLease(s, r, p) ==
    IF r.force /\ s.lease.status = "issued" /\ ~SuccessStop(r) /\ ~NeutralStop(r)
    THEN [s.lease EXCEPT !.status = IF ForcedAgentRan(r) THEN "consumed" ELSE "deferred"]
    ELSE IF IssuesLease(s, r)
    THEN [reason |-> StopReason(s, r), max |-> r.max, status |-> "issued"]
    ELSE IF s.lease.max = r.max /\ ~OrdinaryProgress(s, r, p)
            /\ ~SuccessStop(r) /\ ~NeutralStop(r)
    THEN s.lease ELSE NoLease

NextState(s, r, p) ==
    [iteration |-> NextIteration(s, r), failure |-> NextFailure(s, r),
     open |-> Open(p), total |-> p.total, rounds |-> NextRounds(s, r, p),
     zero |-> NextZero(s, r, p),
     gateRounds |-> Saturated(GateFailureRounds(AllComplete(p), r.gate, s.gateRounds),
                              CompleteGateFailureMax),
     fixRounds |-> NextFixRounds(s, r), verification |-> NextVerification(s, r, p),
     lease |-> NextLease(s, r, p), known |-> TRUE]

\* An escalated round wakes one forced round: at once for a plain failure, and
\* for a terminal boundary with the lease that is minted for it.
WakesForced(s, r) ==
    Escalates(s, r) /\ ~r.force /\ (~StopsNow(s, r) \/ IssuesLease(s, r))

----------------------------------------------------------------------------
\* Mutant of Withdrawn: the merger is trusted to look again.
WithdrawnNever(p) == p

\* The merge authorisation of a pull request with open work is removed.
Withdrawn(p) == IF Open(p) > 0 THEN [p EXCEPT !.labels = @ \ {"automerge"}] ELSE p

\* The checklist a summary counts: the live one, or, when the body cannot be
\* read, the one the evaluation saw.
Readings ==
    {pr} \cup (IF "unread" \in Events
               THEN {[pr EXCEPT !.tasks = round.seen.tasks, !.criteria = round.seen.criteria,
                                !.total = round.seen.total]} ELSE {})

\* updateKeepaliveLoopSummary up to the state comment: the live checklist is
\* read, a stale merge authorisation removed, the new state written.
Summarise ==
    /\ round.phase = "summary"
    /\ \E p \in Readings :
        LET r == Settled(round, p)
            s == Known(st, p)
        IN  /\ pr' = IF p = pr THEN Withdrawn(pr) ELSE pr
            /\ st' = NextState(s, r, p)
            /\ round' = IF SuccessStop(r) \/ WakesForced(s, r)
                        THEN [r EXCEPT !.phase = "publish"] ELSE Idle
            /\ crossed' = IF SuccessStop(r) \/ NeutralStop(r) \/ OrdinaryProgress(s, r, p)
                         THEN 0 ELSE crossed
    /\ UNCHANGED <<facts, pending, asked>>

\* The summary is not published: the API refused a request before the state
\* comment was written.
SummaryLost ==
    /\ "unpublished" \in Events /\ round.phase = "summary"
    /\ pr' \in {pr, Withdrawn(pr)}
    /\ round' = Idle
    /\ UNCHANGED <<facts, st, pending, asked, crossed>>

Finished == round' = Idle

\* A completed pull request is labelled for the guarded merger.
Authorise ==
    /\ round.phase = "publish" /\ SuccessStop(round)
    /\ pr' = [pr EXCEPT !.labels = @ \cup {"automerge"}]
    /\ Finished
    /\ UNCHANGED <<facts, st, pending, asked, crossed>>

\* The forced round is dispatched; it waits in the concurrency group.
Dispatch ==
    /\ round.phase = "publish" /\ ~SuccessStop(round)
    /\ pending' = Waiting("forced", "none")
    /\ Finished
    /\ UNCHANGED <<pr, facts, st, asked, crossed>>

\* The dispatch was not answered: the lease is deferred, whether or not the
\* workflow had been started.
DispatchUnanswered(landed) ==
    /\ "unanswered" \in Events
    /\ round.phase = "publish" /\ ~SuccessStop(round)
    /\ st' = IF st.lease.status = "issued" THEN [st EXCEPT !.lease.status = "deferred"] ELSE st
    /\ landed => asked < ForcedWakes
    /\ pending' = IF landed THEN Waiting("forced", "none") ELSE pending
    /\ asked' = IF landed THEN asked + 1 ELSE asked
    /\ Finished
    /\ UNCHANGED <<pr, facts, crossed>>

Turn ==
    \/ Edit \/ GateRuns \/ FactsChange \/ Wake \/ GateWakes \/ AskForced
    \/ Evaluate \/ Agent \/ Summarise \/ SummaryLost
    \/ Authorise \/ Dispatch
    \/ \E landed \in BOOLEAN : DispatchUnanswered(landed)

Next == Turn /\ UNCHANGED around

Spec == Init /\ [][Next]_vars

\* The workflow runs what waits for it: rounds start, jobs end, and the sweep
\* wakes the loop again and again.
Rounds == Evaluate \/ Agent \/ Summarise \/ Authorise \/ Dispatch
LiveSpec == Spec /\ WF_vars(Rounds /\ UNCHANGED around) /\ WF_vars(Wake /\ UNCHANGED around)

----------------------------------------------------------------------------
\* The round budget is crossed once: however the loop is woken, at most one
\* successful run is charged past the budget that people set, and one more for
\* every forced round that no lease pays for (3220-3227, 5346-5348).  It may be
\* crossed again after an ordinary round that got on, as the one that resolves
\* a conflict does: the summary then drops the lease (4696-4753).
BudgetCrossedOnce == crossed <= 1 + asked

\* Merge is only ever authorised on the state of a verification that succeeded
\* and that no summary has seen work reopened since (3388-3408, 5394-5434).
AuthorisedVerified ==
    [][pr'.labels # pr.labels /\ "automerge" \in pr'.labels \ pr.labels
         => st.verification.status = "done" /\ st.open = 0]_vars

\* An authorisation that work has overtaken is withdrawn (3854-3868).
StaleAuthorityWithdrawn ==
    "automerge" \in pr.labels /\ Open(pr) > 0
        ~> "automerge" \notin pr.labels \/ Open(pr) = 0

\* The verifier and the repairs it asks for come to an end (3254-3258).
Verifying == round.phase = "agent" /\ round.reason \in {"verify-acceptance", "fix-verification-gaps"}
VerificationEnds == <>[]~Verifying

\* The same where the agent has finished a round before every verification and
\* people and the Gate leave the work alone in the end.
LeftAlone == <>[][pr'.tasks = pr.tasks /\ pr'.gate = pr.gate]_vars
VerificationEndsOnceWorked ==
    LeftAlone /\ [](Verifying => st.iteration > 0) => VerificationEnds

\* A pull request whose work stays complete under a green Gate within its
\* budget, and whose agents succeed, is authorised for merge (3388-3408):
\* verification is reached, repeated after work reopened, and never waits for a
\* lost round.
Completing == Open(pr) = 0 /\ pr.total > 0 /\ pr.gate = "success" /\ st.iteration < pr.max
CompletionAuthorised ==
    Results = {"success"} /\ <>[]Completing => <>("automerge" \in pr.labels)

\* The failure count is the one "before pause": once it is reached no round but
\* a forced one runs the agent again (4399).
PausesAfterFailures ==
    [][round'.phase = "agent" /\ ~round'.force /\ round'.action = "run"
         => ~(st.failure.reason = "agent-run-failed" /\ st.failure.count >= FailureThreshold)]_vars
=============================================================================
