------------------------ MODULE KeepaliveLoopProofs ------------------------
(* What is proved of the keepalive loop: the round budget is crossed once,  *)
(* and merge is authorised on verified work only, for every checklist and   *)
(* in every surrounding.                                                    *)
EXTENDS KeepaliveLoop, TLAPS

-----------------------------------------------------------------------------
(* Types.                                                                   *)

Actions == {"skip", "conflict", "wait", "stop", "defer", "run", "fix", "review"}
\* Why a round does what it does, but for completion.
Causes ==
    {"paused", "needs-human", "run-cap-zero", "merge-conflict", "delegation-blocked", "no-runner",
     "missing-agent-label", "keepalive-disabled", "no-checklists", "round-budget-exhausted",
     "rate-limit-exhausted", "bypass-rate-limit-gate", "gate-cancelled", "force-retry-cancelled",
     "gate-cancelled-transient", "force-retry-fix", "fix-gate", "complete-gate-failure-max",
     "gate-not-success", "bypass-fix", "force-retry-gate", "gate-pending", "verify-acceptance",
     "fix-verification-gaps", "verification-exhausted", "zero-activity-infrastructure",
     "progress-review", "ready", "scope-violation", "deterministic-gates-pending", "tasks-changed"}
AllCauses == Causes \cup {"tasks-complete"}
StopCauses == AllCauses \cup {"agent-run-failed", "none"}
Decisions == [action : Actions, reason : AllCauses]
PrLabels == {"agents:paused", "agents:pause", "needs-human", "agents:max-runs:0", "automerge"}
PullRequests ==
    [tasks : Nat, criteria : Nat, total : Nat, gate : GateConclusions, labels : SUBSET PrLabels,
     route : Routes, enabled : BOOLEAN, scoped : BOOLEAN, max : Nat]
Facts ==
    [conflict : BOOLEAN, exhausted : BOOLEAN, jobs : SUBSET JobFacts, gates : BOOLEAN, passing : BOOLEAN]
Failures == [reason : StopCauses, count : Nat]
VerificationRecords == [status : Verifications, iteration : Nat, attempts : Nat]
Leases == [reason : StopCauses, max : Nat, status : {"none", "issued", "consumed", "deferred"}]
States ==
    [iteration : Nat, failure : Failures, open : Nat, total : Nat, rounds : Nat, zero : Nat,
     gateRounds : Nat, fixRounds : Nat, verification : VerificationRecords, lease : Leases,
     known : BOOLEAN]
Seen == [tasks : Nat, criteria : Nat, total : Nat]
BusyRounds ==
    [phase : {"agent", "summary", "publish"}, force : BOOLEAN, action : Actions, reason : AllCauses,
     gate : GateConclusions, max : Nat, result : RunResults \cup {"none"}, seen : Seen, started : BOOLEAN,
     files : BOOLEAN]
LoopType ==
    /\ around \in Surroundings
    /\ pr \in PullRequests /\ facts \in Facts /\ st \in States
    /\ round = Idle \/ round \in BusyRounds
    /\ pending \in [kind : Runs, gate : GateConclusions]
    /\ asked \in Nat /\ crossed \in Nat

-----------------------------------------------------------------------------
(* What a round decides.                                                    *)

\* Completion is only decided on a verification that succeeded.
Sound(d, s) ==
    d \in Decisions /\ (d.reason = "tasks-complete" => d.action = "stop" /\ s.verification.status = "done")
\* A verification that was attempted has a verdict.
Told(s) == s.verification.status = "none" => s.verification.iteration = 0

\* Every decision but completion is sound.
LEMMA DecisionSound ==
    ASSUME NEW a \in Actions, NEW r \in Causes, NEW s
    PROVE  Sound(Decision(a, r), s)
  <1>1. r # "tasks-complete"
    BY DEF Causes
  <1> QED
    BY <1>1 DEF Sound, Decision, Decisions, AllCauses

\* Every decision but that of a finished checklist leaves completion alone.
LEMMA DecisionsOther ==
    ASSUME NEW p, NEW s, NEW f, NEW force
    PROVE  /\ Sound(CancelledGate(p, f, force), s)
           /\ Sound(CompleteGate(p, s, f, force), s)
           /\ Sound(OpenGate(p, s, f, force), s)
  <1>1. Sound(CancelledGate(p, f, force), s)
    BY DecisionSound DEF CancelledGate, Actions, Causes
  <1>2. Sound(CompleteGate(p, s, f, force), s)
    BY DecisionSound DEF CompleteGate, Actions, Causes
  <1>3. Sound(OpenGate(p, s, f, force), s)
    BY DecisionSound DEF OpenGate, Actions, Causes
  <1> QED
    BY <1>1, <1>2, <1>3

\* A finished checklist is complete once it is verified.
LEMMA DecisionFinish ==
    ASSUME NEW p, NEW s \in States, NEW force \in BOOLEAN, Told(s), AllComplete(p)
    PROVE  Sound(Finish(p, s, force), s)
  <1>1. s.verification \in VerificationRecords
    BY DEF States
  <1>2. s.verification.status \in Verifications /\ s.verification.attempts \in Nat
    BY <1>1 DEF VerificationRecords
  <1>3. CASE NeedsVerification(p, s)
    BY <1>3, DecisionSound DEF Finish, Actions, Causes
  <1>4. CASE ~NeedsVerification(p, s) /\ NeedsVerificationRetry(p, s, force)
    BY <1>4, DecisionSound DEF Finish, Actions, Causes
  <1>5. CASE ~NeedsVerification(p, s) /\ ~NeedsVerificationRetry(p, s, force)
    <2>1. s.verification.status # "none"
      BY <1>5 DEF NeedsVerification, Attempted, Told
    <2>2. s.verification.status = "failed" => s.verification.attempts >= MaxVerificationAttempts
      BY <1>2, <1>5 DEF NeedsVerificationRetry, MaxVerificationAttempts
    <2>3. CASE s.verification.status = "failed"
      BY <1>5, <2>2, <2>3, DecisionSound DEF Finish, Actions, Causes
    <2>4. CASE s.verification.status = "done"
      BY <1>5, <2>4 DEF Finish, Sound, Decision, Decisions, Actions, AllCauses
    <2> QED
      BY <1>2, <2>1, <2>3, <2>4 DEF Verifications
  <1> QED
    BY <1>3, <1>4, <1>5

\* What a round decides is sound.
LEMMA DecidedSound ==
    ASSUME NEW p, NEW s \in States, NEW f, NEW force \in BOOLEAN, Told(s)
    PROVE  Sound(Decide(p, s, f, force), s)
  <1>1. Sound(NotGreen(p, s, f, force), s)
    BY DecisionsOther DEF NotGreen
  <1>2. AllComplete(p) => Sound(Finish(p, s, force), s)
    BY DecisionFinish
  <1>3. Sound(Green(p, s, f, force), s)
    BY <1>2, DecisionSound DEF Green, Actions, Causes
  <1>4. Sound(Choose(p, s, f, force), s)
    <2>1. StopControl(p.labels) # "none" => Sound(Decision("skip", StopControl(p.labels)), s)
      BY DecisionSound DEF StopControl, Actions, Causes
    <2> QED
      BY <1>1, <1>3, <2>1, DecisionSound DEF Choose, Actions, Causes
  <1>5. \A d : Sound(d, s) => Sound(ScopeChecked(d, p), s)
    BY DecisionSound DEF ScopeChecked, Actions, Causes
  <1>6. \A d : Sound(d, s) => Sound(QuotaChecked(d, f, force), s)
    BY DecisionSound DEF QuotaChecked, Actions, Causes
  <1> QED
    BY <1>4, <1>5, <1>6 DEF Decide

\* A decision past the budget.
Ordinary(d) ==
    /\ d.action \notin {"run", "fix"}
    /\ d.action = "stop" => d.reason \in {"round-budget-exhausted", "no-checklists"}
\* An ordinary round past its budget runs no agent but to resolve a conflict, and
\* stops for nothing but the budget or a missing checklist.
LEMMA DecidedPastBudget ==
    ASSUME NEW p, NEW s, NEW f, ReachedBudget(p, s)
    PROVE  Ordinary(Decide(p, s, f, FALSE)) 
  <1>1. Ordinary(Choose(p, s, f, FALSE)) /\ Choose(p, s, f, FALSE).reason # "tasks-complete"
    BY DEF Choose, StopControl, Decision, Ordinary
  <1>2. \A d : d.reason # "tasks-complete" => ScopeChecked(d, p) = d
    BY DEF ScopeChecked
  <1>3. \A d : Ordinary(d) => Ordinary(QuotaChecked(d, f, FALSE))
    BY DEF QuotaChecked, Decision, Ordinary
  <1> QED
    BY <1>1, <1>2, <1>3 DEF Decide

-----------------------------------------------------------------------------
(* Types are kept.                                                          *)

\* The surroundings are among those that were assumed.
LEMMA AroundType ==
    ASSUME LoopType
    PROVE  /\ MaxTasks \in Nat /\ MaxIterations \in Nat /\ FailureThreshold \in Nat
           /\ Gates \subseteq GateConclusions /\ Results \subseteq RunResults
  <1>1. around \in Surrounding /\ MaxTasks \in Nat
    BY LoopAssumption DEF LoopType
  <1> QED
    BY <1>1 DEF Surrounding, MaxIterations, FailureThreshold, Gates, Results

\* Counters stay natural numbers.
LEMMA LeastType ==
    ASSUME NEW a \in Nat, NEW b \in Nat
    PROVE  Least(a, b) \in Nat /\ Saturated(a, b) \in Nat
  BY DEF Least, Saturated

\* So do the counts of a checklist.
LEMMA OpenType ==
    ASSUME NEW p \in PullRequests
    PROVE  Open(p) \in Nat /\ p.total \in Nat /\ p.tasks \in Nat /\ p.criteria \in Nat
  BY DEF Open, PullRequests

\* The state a summary starts from.
LEMMA KnownType ==
    ASSUME NEW s \in States, NEW p \in PullRequests
    PROVE  /\ Known(s, p) \in States
           /\ Known(s, p).iteration = s.iteration /\ Known(s, p).lease = s.lease
           /\ Known(s, p).verification = s.verification
  <1>1. CASE s.known
    BY <1>1 DEF Known
  <1>2. CASE ~s.known
    BY <1>2, OpenType DEF Known, States
  <1> QED
    BY <1>1, <1>2

\* The verdict that a round leaves behind.
LEMMA VerificationType ==
    ASSUME NEW s \in States, NEW r \in BusyRounds, NEW p \in PullRequests
    PROVE  /\ NextIteration(s, r) \in Nat
           /\ NextVerification(s, r, p) \in VerificationRecords
           /\ Told(s) => Told([verification |-> NextVerification(s, r, p)])
  <1>1. s.verification \in VerificationRecords /\ s.iteration \in Nat
    BY DEF States
  <1>2. NextIteration(s, r) \in Nat
    BY <1>1 DEF NextIteration
  <1>3. Saturated(s.verification.attempts + 1, MaxVerificationAttempts) \in Nat
    BY <1>1 DEF VerificationRecords, MaxVerificationAttempts, Saturated, Least
  <1>4. NoVerification \in VerificationRecords
    BY DEF NoVerification, VerificationRecords, Verifications
  <1>5. \A a \in Nat : [NoVerification EXCEPT !.attempts = a] = [status |-> "none", iteration |-> 0, attempts |-> a]
    BY DEF NoVerification
  <1> DEFINE a == Saturated(s.verification.attempts + 1, MaxVerificationAttempts)
             i == NextIteration(s, r)
             v(status) == [status |-> status, iteration |-> i, attempts |-> a]
             n == [status |-> "none", iteration |-> 0, attempts |-> a]
  <1>6. NextVerification(s, r, p) \in
          {NoVerification, v("done"), v("failed"), n, s.verification}
    BY <1>3, <1>5 DEF NextVerification
  <1>7. a \in Nat /\ i \in Nat
    BY <1>2, <1>3
  <1> HIDE DEF a, i
  <1>8. {v("done"), v("failed"), n} \subseteq VerificationRecords
    BY <1>7 DEF VerificationRecords, Verifications
  <1>9. Told(s) => \A x \in {NoVerification, v("done"), v("failed"), n, s.verification} :
                     x.status = "none" => x.iteration = 0
    BY DEF NoVerification, Told
  <1> QED
    BY <1>1, <1>2, <1>4, <1>6, <1>8, <1>9 DEF Told

\* The count of failures that a round leaves behind.
LEMMA FailureType ==
    ASSUME LoopType, NEW s \in States, NEW r \in BusyRounds
    PROVE  NextFailure(s, r) \in Failures
  <1>1. s.failure \in Failures /\ s.failure.count \in Nat
    BY DEF States, Failures
  <1>2. Saturated(s.failure.count + 1, FailureThreshold) \in Nat
    BY <1>1, AroundType DEF Saturated, Least
  <1>3. \A reason \in StopCauses : Counted(s.failure, reason) \in Failures
    BY <1>2 DEF Counted, Failures
  <1>4. NoFailure \in Failures /\ "agent-run-failed" \in StopCauses
    BY DEF NoFailure, Failures, StopCauses
  <1>5. r.reason \in StopCauses
    BY DEF BusyRounds, StopCauses
  <1> QED
    BY <1>1, <1>3, <1>4, <1>5 DEF NextFailure

\* The lease that a round leaves behind.
LEMMA LeaseType ==
    ASSUME NEW s \in States, NEW r \in BusyRounds, NEW p
    PROVE  /\ NextLease(s, r, p) \in Leases
           /\ \/ /\ r.force /\ s.lease.status = "issued" /\ ~SuccessStop(r) /\ ~NeutralStop(r)
                 /\ NextLease(s, r, p).reason = s.lease.reason /\ NextLease(s, r, p).max = s.lease.max
                 /\ NextLease(s, r, p).status = IF ForcedAgentRan(r) THEN "consumed" ELSE "deferred"
              \/ /\ IssuesLease(s, r)
                 /\ NextLease(s, r, p) = [reason |-> StopReason(s, r), max |-> r.max, status |-> "issued"]
              \/ /\ ~IssuesLease(s, r)
                 /\ NextLease(s, r, p) = s.lease
              \/ /\ ~IssuesLease(s, r)
                 /\ NextLease(s, r, p) = NoLease
                 /\ \/ s.lease.max # r.max
                    \/ SuccessStop(r) \/ NeutralStop(r) \/ OrdinaryProgress(s, r, p)
  <1>1. s.lease \in Leases
    BY DEF States
  <1>2. r.max \in Nat /\ StopReason(s, r) \in StopCauses
    BY DEF BusyRounds, StopReason, StopCauses
  <1>3. NoLease \in Leases
    BY DEF NoLease, Leases, StopCauses
  <1>4. CASE r.force /\ s.lease.status = "issued" /\ ~SuccessStop(r) /\ ~NeutralStop(r)
    <2> DEFINE status == IF ForcedAgentRan(r) THEN "consumed" ELSE "deferred"
               new == [s.lease EXCEPT !.status = status]
    <2>1. NextLease(s, r, p) = new
      BY <1>4 DEF NextLease
    <2>2. status \in {"consumed", "deferred"}
      OBVIOUS
    <2> HIDE DEF status
    <2>3. new \in Leases /\ new.reason = s.lease.reason /\ new.max = s.lease.max /\ new.status = status
      BY <1>1, <2>2 DEF Leases
    <2> HIDE DEF new
    <2> QED
      BY <1>4, <2>1, <2>3 DEF status
  <1>5. CASE ~(r.force /\ s.lease.status = "issued" /\ ~SuccessStop(r) /\ ~NeutralStop(r)) /\ IssuesLease(s, r)
    <2>1. NextLease(s, r, p) = [reason |-> StopReason(s, r), max |-> r.max, status |-> "issued"]
      BY <1>5 DEF NextLease
    <2> QED
      BY <1>2, <1>5, <2>1 DEF Leases
  <1>6. CASE ~(r.force /\ s.lease.status = "issued" /\ ~SuccessStop(r) /\ ~NeutralStop(r)) /\ ~IssuesLease(s, r)
    <2>1. \/ NextLease(s, r, p) = s.lease
          \/ /\ NextLease(s, r, p) = NoLease
             /\ \/ s.lease.max # r.max
                \/ SuccessStop(r) \/ NeutralStop(r) \/ OrdinaryProgress(s, r, p)
      BY <1>6 DEF NextLease
    <2> QED
      BY <1>1, <1>3, <1>6, <2>1
  <1> QED
    BY <1>4, <1>5, <1>6

\* The state that a summary writes.
LEMMA NextStateType ==
    ASSUME LoopType, NEW s \in States, NEW r \in BusyRounds, NEW p \in PullRequests
    PROVE  NextState(s, r, p) \in States
  <1>1. /\ s.rounds \in Nat /\ s.zero \in Nat /\ s.gateRounds \in Nat /\ s.fixRounds \in Nat
        /\ s.iteration \in Nat /\ r.force \in BOOLEAN
    BY DEF States, BusyRounds
  <1>2. NextRounds(s, r, p) \in Nat
    <2>1. RoundsWithout(p, s, FALSE) \in Nat
      BY <1>1 DEF RoundsWithout
    <2> QED
      BY <2>1, LeastType DEF NextRounds, ReviewThreshold
  <1>3. NextZero(s, r, p) \in Nat
    BY <1>1 DEF NextZero, ZeroActivityThreshold, Saturated, Least
  <1>4. Saturated(GateFailureRounds(AllComplete(p), r.gate, s.gateRounds), CompleteGateFailureMax) \in Nat
    <2>1. GateFailureRounds(AllComplete(p), r.gate, s.gateRounds) \in Nat
      BY <1>1 DEF GateFailureRounds
    <2> QED
      BY <2>1, LeastType DEF CompleteGateFailureMax
  <1>5. NextFixRounds(s, r) \in Nat
    BY <1>1 DEF NextFixRounds, FixAttemptMax, Saturated, Least
  <1> QED
    BY <1>2, <1>3, <1>4, <1>5, OpenType, VerificationType, FailureType, LeaseType DEF NextState, States

\* What a summary takes for the reason of its round.
LEMMA SettledType ==
    ASSUME NEW r \in BusyRounds, NEW p
    PROVE  /\ Settled(r, p) \in BusyRounds
           /\ \/ Settled(r, p) = r /\ (r.reason = "tasks-complete" => ~(Open(p) > 0))
              \/ /\ r.reason = "tasks-complete"
                 /\ \E why \in {"deterministic-gates-pending", "tasks-changed"} :
                       Settled(r, p) = [r EXCEPT !.action = "wait", !.reason = why]
  <1>1. \A why \in {"deterministic-gates-pending", "tasks-changed"} :
           [r EXCEPT !.action = "wait", !.reason = why] \in BusyRounds
    <2>1. TAKE why \in {"deterministic-gates-pending", "tasks-changed"}
    <2>2. why \in AllCauses /\ "wait" \in Actions
      BY DEF AllCauses, Causes, Actions
    <2> QED
      BY <2>2 DEF BusyRounds
  <1> QED
    BY <1>1 DEF Settled

-----------------------------------------------------------------------------
(* The budget.  Past it, a run of the agent is paid for by the lease that   *)
(* may still be granted, or by a forced round on its way.                   *)

\* A forced round that waits.
Queued(q) == IF q.kind = "forced" THEN 1 ELSE 0
\* A round that may still run an agent past the budget, or have one run; a round
\* that was evaluated under an old budget may mint a lease for that.
Weight(r, max) ==
    IF \/ /\ r.phase \in {"agent", "summary"}
          /\ IF r.force THEN ~r.started ELSE r.max # max
       \/ r.phase = "publish" /\ ~SuccessStop(r)
    THEN 1 ELSE 0
\* The lease of the budget, unless it was given out.
Grant(lease, max) ==
    IF /\ lease.reason = "round-budget-exhausted" /\ lease.max = max
       /\ lease.status \in {"issued", "consumed"}
    THEN 0 ELSE 1

\* What is true of a round under way.
RoundOK(r, max, s, q, a) ==
    /\ r.max <= max /\ s.lease.max <= r.max
    /\ q.kind = "forced" => a >= 1
    /\ r.started => r.action \in Execution
    /\ r.phase = "agent" => r.action \in Execution /\ ~r.started
    /\ r.phase # "publish" =>
         /\ (~r.force /\ s.iteration >= r.max) => Ordinary(r)
         /\ r.reason = "tasks-complete" => r.action = "stop" /\ s.verification.status = "done"
    /\ r.phase = "publish" /\ SuccessStop(r) => s.verification.status = "done" /\ s.open = 0

\* What is true of the loop: no run past the budget before it is reached, and
\* past it never more runs and means to run than were paid for.
Budgeted(max, s, r, q, a, c) ==
    /\ Told(s) /\ s.lease.max <= max
    /\ c > 0 => s.iteration >= max
    /\ r # Idle => RoundOK(r, max, s, q, a)
    /\ s.iteration >= max => c + Queued(q) + Weight(r, max) + Grant(s.lease, max) <= 1 + a
KInv == LoopType /\ Budgeted(pr.max, st, round, pending, asked, crossed)

\* No round under way is no round, and pays for nothing.
LEMMA IdleRound ==
    /\ Idle.phase = "idle" /\ Idle \notin BusyRounds
    /\ \A max : Weight(Idle, max) = 0
    /\ \A r \in BusyRounds : r # Idle /\ r.phase # "idle"
  <1>1. Idle.phase = "idle"
    BY DEF Idle
  <1>2. \A r \in BusyRounds : r.phase # "idle"
    BY DEF BusyRounds
  <1> QED
    BY <1>1, <1>2 DEF Weight

\* The numbers that the budget is reckoned with.
LEMMA KnownTypes ==
    ASSUME KInv
    PROVE  /\ pr.max \in Nat /\ st.iteration \in Nat /\ st.lease \in Leases /\ st.lease.max \in Nat
           /\ asked \in Nat /\ crossed \in Nat /\ pending.kind \in Runs
           /\ round \in BusyRounds => round.max \in Nat /\ round.force \in BOOLEAN
           /\ \A q, r, max, lease : /\ Queued(q) \in {0, 1} /\ Weight(r, max) \in {0, 1}
                                    /\ Grant(lease, max) \in {0, 1}
  <1>1. pr.max \in Nat /\ st.iteration \in Nat /\ st.lease \in Leases /\ asked \in Nat /\ crossed \in Nat
    BY DEF KInv, LoopType, PullRequests, States
  <1>2. st.lease.max \in Nat
    BY <1>1 DEF Leases
  <1>3. pending.kind \in Runs
    BY DEF KInv, LoopType
  <1>4. round \in BusyRounds => round.max \in Nat /\ round.force \in BOOLEAN
    BY DEF BusyRounds
  <1> QED
    BY <1>1, <1>2, <1>3, <1>4 DEF Queued, Weight, Grant

\* The loop does nothing, and what waits becomes no more forced than is asked.
LEMMA LoopRests ==
    ASSUME KInv, LoopType', st' = st, round' = round, pr'.max = pr.max, crossed' = crossed,
           asked' >= asked + Queued(pending') - Queued(pending)
    PROVE  KInv'
  <1>1. asked' >= asked + Queued(pending') - Queued(pending) /\ asked' \in Nat
    BY DEF LoopType
  <1>2. round # Idle => RoundOK(round, pr.max, st, pending', asked')
    <2>1. SUFFICES ASSUME round # Idle, pending'.kind = "forced" PROVE asked' >= 1
      BY DEF KInv, Budgeted, RoundOK
    <2> QED
      BY <1>1, <2>1, KnownTypes DEF KInv, Budgeted, RoundOK, Queued
  <1>3. st.iteration >= pr.max =>
           crossed + Queued(pending') + Weight(round, pr.max) + Grant(st.lease, pr.max) <= 1 + asked'
    BY <1>1, KnownTypes DEF KInv, Budgeted
  <1> QED
    BY <1>2, <1>3 DEF KInv, Budgeted

\* People change the pull request, and may raise the budget: what is under way
\* then does not count against the new one.
LEMMA EditKeeps ==
    ASSUME KInv, Edit, UNCHANGED around
    PROVE  KInv'
  <1>1. pr \in PullRequests /\ MaxTasks \in Nat /\ MaxIterations \in Nat
    BY AroundType DEF KInv, LoopType
  <1>2. pr' \in PullRequests
    <2>1. pr.tasks \in Nat /\ pr.criteria \in Nat /\ pr.total \in Nat /\ pr.labels \in SUBSET PrLabels
      BY <1>1 DEF PullRequests
    <2>2. CASE \E l \in {"agents:paused", "needs-human", "agents:max-runs:0"} :
                 pr' = [pr EXCEPT !.labels = IF l \in @ THEN @ \ {l} ELSE @ \cup {l}]
      <3>1. PICK l \in {"agents:paused", "needs-human", "agents:max-runs:0"} :
                 pr' = [pr EXCEPT !.labels = IF l \in @ THEN @ \ {l} ELSE @ \cup {l}]
        BY <2>2
      <3> DEFINE n == IF l \in pr.labels THEN pr.labels \ {l} ELSE pr.labels \cup {l}
      <3>2. n \in SUBSET PrLabels
        BY <2>1 DEF PrLabels
      <3>3. pr' = [pr EXCEPT !.labels = n]
        BY <3>1
      <3> HIDE DEF n
      <3> QED
        BY <1>1, <3>2, <3>3 DEF PullRequests
    <2>3. CASE pr.tasks > 0 /\ pr' = [pr EXCEPT !.tasks = @ - 1]
      BY <1>1, <2>1, <2>3 DEF PullRequests
    <2>4. CASE pr.criteria > 0 /\ pr' = [pr EXCEPT !.criteria = @ - 1]
      BY <1>1, <2>1, <2>4 DEF PullRequests
    <2>5. CASE pr' = [pr EXCEPT !.tasks = @ + 1] \/ pr' = [pr EXCEPT !.criteria = @ + 1]
      BY <1>1, <2>1, <2>5 DEF PullRequests
    <2>6. CASE pr' = [pr EXCEPT !.total = 0, !.tasks = 0, !.criteria = 0]
      BY <1>1, <2>6 DEF PullRequests
    <2>7. CASE pr' = [pr EXCEPT !.total = MaxTasks, !.tasks = MaxTasks]
      BY <1>1, <2>7 DEF PullRequests
    <2>8. CASE pr' = [pr EXCEPT !.max = MaxIterations + 1]
      <3>1. MaxIterations + 1 \in Nat
        BY <1>1
      <3> DEFINE n == MaxIterations + 1
      <3> HIDE DEF n
      <3> QED
        BY <1>1, <2>8, <3>1 DEF PullRequests, n
    <2>9. CASE pr' = [pr EXCEPT !.scoped = ~@]
      <3> DEFINE n == ~pr.scoped
      <3>1. n \in BOOLEAN
        OBVIOUS
      <3>2. pr' = [pr EXCEPT !.scoped = n]
        BY <2>9
      <3> HIDE DEF n
      <3> QED
        BY <1>1, <3>1, <3>2 DEF PullRequests
    <2> QED
      BY <2>2, <2>3, <2>4, <2>5, <2>6, <2>7, <2>8, <2>9 DEF Edit, PeopleEdit
  <1>3. pr'.max = pr.max \/ pr'.max = pr.max + 1
    BY <1>1 DEF Edit, PeopleEdit, PullRequests
  <1>4. LoopType'
    BY <1>2 DEF Edit, KInv, LoopType
  <1>5. CASE pr'.max = pr.max
    BY <1>4, <1>5, LoopRests, KnownTypes DEF Edit
  <1>6. CASE pr'.max = pr.max + 1
    <2>1. /\ crossed' = 0 /\ asked' = (IF UnderWay THEN asked + 1 ELSE asked)
          /\ st' = st /\ round' = round /\ pending' = pending
      BY <1>6, KnownTypes DEF Edit
    <2>2. round # Idle => RoundOK(round, pr'.max, st, pending, asked')
      BY <1>6, <2>1, KnownTypes DEF KInv, LoopType, Budgeted, RoundOK
    <2>3. Queued(pending) + Weight(round, pr'.max) + Grant(st.lease, pr'.max) <= 1 + asked'
      <3>1. CASE round = Idle
        BY <2>1, <3>1, IdleRound, KnownTypes DEF UnderWay, Queued
      <3>2. CASE round # Idle
        <4>1. round.phase # "idle" /\ RoundOK(round, pr.max, st, pending, asked)
          BY <3>2, IdleRound DEF KInv, LoopType, Budgeted
        <4>2. asked' = asked + 1 /\ (Queued(pending) = 1 => asked >= 1)
          BY <2>1, <4>1 DEF UnderWay, RoundOK, Queued
        <4> QED
          BY <4>2, KnownTypes
      <3> QED
        BY <3>1, <3>2
    <2>4. Told(st) /\ st.lease.max <= pr'.max
      BY <1>6, KnownTypes DEF KInv, Budgeted
    <2>5. 0 + Queued(pending) + Weight(round, pr'.max) + Grant(st.lease, pr'.max) <= 1 + asked'
      BY <2>3, KnownTypes
    <2> QED
      BY <1>4, <2>1, <2>2, <2>4, <2>5 DEF KInv, Budgeted
  <1> QED
    BY <1>3, <1>5, <1>6

\* What happens around the loop.
LEMMA AroundKeeps ==
    ASSUME KInv, GateRuns \/ FactsChange \/ Wake \/ GateWakes \/ AskForced, UNCHANGED around
    PROVE  KInv'
  <1>1. pr \in PullRequests /\ facts \in Facts /\ pr.gate \in GateConclusions
    BY DEF KInv, LoopType, PullRequests
  <1>2. CASE GateRuns
    <2>1. pr' \in PullRequests /\ pr'.max = pr.max
      BY <1>1, <1>2, AroundType DEF GateRuns, PullRequests, KInv
    <2> QED
      BY <1>2, <2>1, LoopRests, KnownTypes DEF GateRuns, KInv, LoopType
  <1>3. CASE FactsChange
    <2>1. facts' \in Facts
      <3>1. facts.conflict \in BOOLEAN /\ facts.exhausted \in BOOLEAN /\ facts.gates \in BOOLEAN
            /\ facts.passing \in BOOLEAN
        BY <1>1 DEF Facts
      <3>2. \A b \in BOOLEAN : /\ [facts EXCEPT !.conflict = b] \in Facts
                               /\ [facts EXCEPT !.exhausted = b] \in Facts
                               /\ [facts EXCEPT !.gates = b] \in Facts
                               /\ [facts EXCEPT !.passing = b] \in Facts
        BY <1>1 DEF Facts
      <3>3. \A jobs \in SUBSET JobFacts : [facts EXCEPT !.jobs = jobs] \in Facts
        BY <1>1 DEF Facts
      <3>4. \A b \in BOOLEAN : (~b) \in BOOLEAN
        OBVIOUS
      <3> QED
        BY <1>3, <3>1, <3>2, <3>3, <3>4 DEF FactsChange
    <2> QED
      BY <1>3, <2>1, LoopRests, KnownTypes DEF FactsChange, KInv, LoopType
  <1>4. CASE Wake
    <2>1. pending' \in [kind : Runs, gate : GateConclusions] /\ pending'.kind = "wake"
      BY <1>4 DEF Wake, Waiting, Runs, GateConclusions
    <2>2. Queued(pending') = 0
      BY <2>1 DEF Queued
    <2> QED
      BY <1>4, <2>1, <2>2, LoopRests, KnownTypes DEF Wake, KInv, LoopType
  <1>5. CASE GateWakes
    <2>1. pending' \in [kind : Runs, gate : GateConclusions] /\ pending'.kind = "gate"
      BY <1>1, <1>5 DEF GateWakes, Waiting, Runs
    <2>2. Queued(pending') = 0
      BY <2>1 DEF Queued
    <2> QED
      BY <1>5, <2>1, <2>2, LoopRests, KnownTypes DEF GateWakes, KInv, LoopType
  <1>6. CASE AskForced
    <2>1. pending' \in [kind : Runs, gate : GateConclusions] /\ Queued(pending) = 0
      BY <1>6 DEF AskForced, Waiting, Runs, GateConclusions, Queued
    <2>2. asked' = asked + 1 /\ asked' \in Nat
      BY <1>6, KnownTypes DEF AskForced
    <2> QED
      BY <1>6, <2>1, <2>2, LoopRests, KnownTypes DEF AskForced, KInv, LoopType
  <1> QED
    BY <1>2, <1>3, <1>4, <1>5, <1>6

\* A round takes what waits; it carries on as it was asked to.
LEMMA EvaluateKeeps ==
    ASSUME KInv, Evaluate, UNCHANGED around
    PROVE  KInv'
  <1> DEFINE force == pending.kind = "forced"
             s == Known(st, pr)
             p == [pr EXCEPT !.gate = GateHeard(pending.gate, pr.gate)]
             d == Decide(p, s, facts, force)
             new == [phase |-> IF d.action \in Execution THEN "agent" ELSE "summary",
                     force |-> force, action |-> d.action, reason |-> d.reason,
                     gate |-> p.gate, max |-> pr.max, result |-> "none", seen |-> Counts(pr),
                     started |-> FALSE, files |-> FALSE]
  <1>1. /\ round' = new /\ pending' = NoRun /\ pr' = pr /\ facts' = facts /\ st' = st /\ asked' = asked
        /\ crossed' = crossed /\ round.phase = "idle"
    BY DEF Evaluate
  <1>2. /\ pr \in PullRequests /\ st \in States /\ pending \in [kind : Runs, gate : GateConclusions]
        /\ pr.gate \in GateConclusions /\ round = Idle
    BY <1>1, IdleRound DEF KInv, LoopType, PullRequests
  <1>3. s \in States /\ s.iteration = st.iteration /\ s.verification = st.verification /\ Told(s)
    BY <1>2, KnownType DEF KInv, Budgeted, Told
  <1>4. p.gate \in GateConclusions /\ p.max = pr.max
    BY <1>2 DEF GateHeard, PullRequests
  <1>5. force \in BOOLEAN
    OBVIOUS
  <1>6. ~force /\ st.iteration >= pr.max => Ordinary(d)
    <2>1. ASSUME ~force, st.iteration >= pr.max PROVE Ordinary(d)
      <3>1. ReachedBudget(p, s)
        BY <1>3, <1>4, <2>1 DEF ReachedBudget
      <3>2. force = FALSE
        BY <2>1
      <3> HIDE DEF s, p, force
      <3> QED
        BY <3>1, <3>2, DecidedPastBudget
    <2> QED
      BY <2>1
  <1> HIDE DEF s, p, force
  <1>7. Sound(d, s)
    BY <1>3, <1>5, DecidedSound
  <1> HIDE DEF d
  <1>8. /\ d.action \in Actions /\ d.reason \in AllCauses
        /\ d.reason = "tasks-complete" => d.action = "stop" /\ st.verification.status = "done"
    BY <1>3, <1>7 DEF Sound, Decisions
  <1>9. Counts(pr) \in Seen
    BY <1>2, OpenType DEF Counts, Seen
  <1>10. new \in BusyRounds /\ new.phase \in {"agent", "summary"}
    <2>1. (IF d.action \in Execution THEN "agent" ELSE "summary") \in {"agent", "summary", "publish"}
      OBVIOUS
    <2>2. pr.max \in Nat
      BY <1>2 DEF PullRequests
    <2> QED
      BY <1>4, <1>5, <1>8, <1>9, <2>1, <2>2 DEF BusyRounds
  <1>11. NoRun \in [kind : Runs, gate : GateConclusions] /\ NoRun.kind = "none"
    BY DEF NoRun, Waiting, Runs, GateConclusions
  <1>12. LoopType'
    BY <1>1, <1>10, <1>11 DEF KInv, LoopType
  <1>13. RoundOK(new, pr.max, st, NoRun, asked)
    BY <1>6, <1>8, <1>11, KnownTypes DEF RoundOK, KInv, Budgeted, Ordinary
  <1>14. Queued(NoRun) = 0 /\ Weight(new, pr.max) <= Queued(pending)
    <2>1. new.max = pr.max /\ new.force = force /\ ~new.started /\ new.phase # "publish"
      BY <1>10
    <2> HIDE DEF new
    <2>2. CASE force
      BY <1>11, <2>2, KnownTypes DEF Queued, Weight, force
    <2>3. CASE ~force
      BY <1>11, <2>1, <2>3 DEF Queued, Weight
    <2> QED
      BY <2>2, <2>3
  <1> HIDE DEF new
  <1>15. st.iteration >= pr.max => crossed + Queued(NoRun) + Weight(new, pr.max) + Grant(st.lease, pr.max) <= 1 + asked
    BY <1>2, <1>14, IdleRound, KnownTypes DEF KInv, Budgeted
  <1> QED
    BY <1>1, <1>12, <1>13, <1>15 DEF KInv, Budgeted

\* An agent that crosses the budget is paid for by the forced round it is.
LEMMA AgentKeeps ==
    ASSUME KInv, Agent, UNCHANGED around
    PROVE  KInv'
  <1>1. PICK result \in Results, done \in 0..pr.tasks, files \in BOOLEAN :
          /\ result \in {"skipped", "cancelled"} => done = 0 /\ ~files
          /\ round' = [round EXCEPT !.phase = "summary", !.result = result, !.files = files,
                                    !.started = result \notin {"skipped", "cancelled"}]
          /\ pr' = [pr EXCEPT !.tasks = @ - done,
                              !.criteria = IF round.reason = "verify-acceptance"
                                              /\ result = "success" THEN 0 ELSE @]
          /\ crossed' = IF round.action \in {"run", "fix"} /\ result = "success"
                           /\ st.iteration >= pr.max THEN crossed + 1 ELSE crossed
    BY DEF Agent
  <1>2. round.phase = "agent" /\ facts' = facts /\ st' = st /\ pending' = pending /\ asked' = asked
    BY DEF Agent
  <1>3. round \in BusyRounds /\ round # Idle /\ result \in RunResults /\ pr \in PullRequests
    BY <1>2, IdleRound, AroundType DEF KInv, LoopType
  <1>4. pr' \in PullRequests /\ pr'.max = pr.max
    <2>1. pr.tasks \in Nat /\ pr.criteria \in Nat
      BY <1>3, OpenType
    <2> DEFINE t == pr.tasks - done
               c == IF round.reason = "verify-acceptance" /\ result = "success" THEN 0 ELSE pr.criteria
    <2>2. t \in Nat /\ c \in Nat
      BY <2>1
    <2>3. pr' = [pr EXCEPT !.tasks = t, !.criteria = c]
      BY <1>1
    <2> HIDE DEF t, c
    <2> QED
      BY <1>3, <2>2, <2>3 DEF PullRequests
  <1> DEFINE b == result \notin {"skipped", "cancelled"}
  <1>5. b \in BOOLEAN
    OBVIOUS
  <1>6. /\ round' \in BusyRounds /\ round'.phase = "summary" /\ round'.started = b
        /\ round'.force = round.force /\ round'.max = round.max /\ round'.action = round.action
        /\ round'.reason = round.reason
    <2>1. round' = [round EXCEPT !.phase = "summary", !.result = result, !.files = files, !.started = b]
      BY <1>1
    <2>2. result \in RunResults \cup {"none"}
      BY <1>3
    <2> HIDE DEF b
    <2> QED
      BY <1>3, <1>5, <2>1, <2>2 DEF BusyRounds
  <1>7. LoopType'
    BY <1>1, <1>2, <1>4, <1>6, KnownTypes DEF KInv, LoopType
  <1>8. RoundOK(round, pr.max, st, pending, asked)
    BY <1>3 DEF KInv, Budgeted
  <1>9. RoundOK(round', pr.max, st, pending, asked)
    BY <1>2, <1>6, <1>8 DEF RoundOK, Ordinary
  <1>10. /\ round.force => Weight(round, pr.max) = 1
         /\ round.force /\ b => Weight(round', pr.max) = 0
         /\ Weight(round', pr.max) <= Weight(round, pr.max)
    <2>1. ~round.started /\ round.force \in BOOLEAN
      BY <1>2, <1>3, <1>8, KnownTypes DEF RoundOK
    <2> HIDE DEF b
    <2>2. CASE round.force
      <3>1. Weight(round, pr.max) = 1
        BY <1>2, <2>1, <2>2 DEF Weight
      <3>2. b => Weight(round', pr.max) = 0
        BY <1>6, <2>2 DEF Weight
      <3> QED
        BY <2>2, <3>1, <3>2, KnownTypes
    <2>3. CASE ~round.force
      BY <1>2, <1>6, <2>3 DEF Weight
    <2> QED
      BY <2>2, <2>3
  <1>11. CASE crossed' = crossed
    BY <1>2, <1>4, <1>6, <1>7, <1>9, <1>10, <1>11, KnownTypes DEF KInv, Budgeted
  <1>12. CASE crossed' # crossed
    <2>1. /\ round.action \in {"run", "fix"} /\ result = "success" /\ st.iteration >= pr.max
          /\ crossed' = crossed + 1
      BY <1>1, <1>12
    <2>2. round.force
      BY <1>2, <1>3, <1>8, <2>1, KnownTypes DEF RoundOK, Ordinary
    <2>3. Weight(round, pr.max) = 1 /\ Weight(round', pr.max) = 0
      BY <1>10, <2>1, <2>2
    <2>4. crossed' + Queued(pending) + Weight(round', pr.max) + Grant(st.lease, pr.max) <= 1 + asked
      BY <2>1, <2>3, KnownTypes DEF KInv, Budgeted
    <2> QED
      BY <1>2, <1>4, <1>7, <1>9, <2>1, <2>4 DEF KInv, Budgeted
  <1> QED
    BY <1>11, <1>12

\* A lease is minted for the boundary at which an ordinary round stops, and a
\* forced round leaves it consumed or deferred: what may still be granted, and
\* what is under way, are never more than before, unless the count starts anew.
LEMMA SummaryPays ==
    ASSUME KInv, round \in BusyRounds, round.phase = "summary",
           NEW r \in BusyRounds, NEW s \in States, NEW p \in PullRequests, r = Settled(round, p), s = Known(st, p),
           NEW next, next = IF SuccessStop(r) \/ WakesForced(s, r) THEN [r EXCEPT !.phase = "publish"] ELSE Idle
    PROVE  /\ NextLease(s, r, p).max <= round.max
           /\ Weight(next, pr.max) = 1 => ~SuccessStop(r) /\ WakesForced(s, r)
           /\ NextIteration(s, r) # st.iteration => Weight(next, pr.max) = 0
           /\ \/ st.iteration < pr.max
              \/ /\ SuccessStop(r) \/ NeutralStop(r) \/ OrdinaryProgress(s, r, p)
                 /\ Weight(next, pr.max) = 0
              \/ Weight(next, pr.max) + Grant(NextLease(s, r, p), pr.max)
                    <= Weight(round, pr.max) + Grant(st.lease, pr.max)
  <1> DEFINE lease == NextLease(s, r, p)
  <1>1. /\ r.max = round.max /\ r.force = round.force /\ r.started = round.started /\ r.phase = "summary"
        /\ r.max \in Nat /\ r.force \in BOOLEAN /\ r.started \in BOOLEAN
        /\ r = round \/ (round.reason = "tasks-complete" /\ r.action = "wait")
    <2>1. CASE r = round
      BY <2>1 DEF BusyRounds
    <2>2. CASE /\ round.reason = "tasks-complete"
               /\ \E why \in {"deterministic-gates-pending", "tasks-changed"} :
                     r = [round EXCEPT !.action = "wait", !.reason = why]
      <3>1. PICK why \in {"deterministic-gates-pending", "tasks-changed"} :
                 r = [round EXCEPT !.action = "wait", !.reason = why]
        BY <2>2
      <3>2. /\ r.max = round.max /\ r.force = round.force /\ r.started = round.started
            /\ r.phase = round.phase /\ r.action = "wait"
        BY <3>1 DEF BusyRounds
      <3> QED
        BY <2>2, <3>2 DEF BusyRounds
    <2>3. \/ Settled(round, p) = round
          \/ /\ round.reason = "tasks-complete"
             /\ \E why \in {"deterministic-gates-pending", "tasks-changed"} :
                   Settled(round, p) = [round EXCEPT !.action = "wait", !.reason = why]
      BY SettledType
    <2> QED
      BY <2>1, <2>2, <2>3, Zenon
  <1>2. s.lease = st.lease /\ s.iteration = st.iteration /\ st.lease \in Leases /\ st.lease.max \in Nat
    BY KnownType, KnownTypes DEF KInv, LoopType
  <1>3. RoundOK(round, pr.max, st, pending, asked)
    BY IdleRound DEF KInv, Budgeted
  <1>4. /\ lease \in Leases
        /\ \/ /\ r.force /\ s.lease.status = "issued" /\ ~SuccessStop(r) /\ ~NeutralStop(r)
              /\ lease.reason = s.lease.reason /\ lease.max = s.lease.max
              /\ lease.status = IF ForcedAgentRan(r) THEN "consumed" ELSE "deferred"
           \/ /\ IssuesLease(s, r)
              /\ lease = [reason |-> StopReason(s, r), max |-> r.max, status |-> "issued"]
           \/ ~IssuesLease(s, r) /\ lease = s.lease
           \/ /\ ~IssuesLease(s, r) /\ lease = NoLease
              /\ \/ s.lease.max # r.max
                 \/ SuccessStop(r) \/ NeutralStop(r) \/ OrdinaryProgress(s, r, p)
    BY LeaseType
  <1>5. lease.max <= round.max
    <2>1. st.lease.max <= round.max
      BY <1>3 DEF RoundOK
    <2>2. NoLease.max = 0
      BY DEF NoLease
    <2> HIDE DEF lease
    <2> QED
      BY <1>1, <1>2, <1>4, <2>1, <2>2
  <1>6. Weight(next, pr.max) = 1 => ~SuccessStop(r) /\ WakesForced(s, r)
    <2>1. CASE SuccessStop(r)
      <3>1. next.phase = "publish" /\ SuccessStop(next)
        BY <2>1 DEF SuccessStop, BusyRounds
      <3> QED
        BY <3>1 DEF Weight
    <2>2. CASE ~SuccessStop(r) /\ ~WakesForced(s, r)
      BY <2>2, IdleRound
    <2> QED
      BY <2>1, <2>2
  <1>7. NextIteration(s, r) # st.iteration => ~WakesForced(s, r)
    <2>1. SUFFICES ASSUME r.action \in {"run", "fix"}, r.result = "success" PROVE ~WakesForced(s, r)
      BY <1>2 DEF NextIteration
    <2>2. ~StopsNow(s, r)
      BY <2>1 DEF StopsNow, BadStop, RepeatedFailure, AgentFailed
    <2> QED
      BY <2>1, <2>2 DEF WakesForced, Escalates
  <1>8. /\ Weight(next, pr.max) \in {0, 1} /\ Weight(round, pr.max) \in {0, 1}
        /\ Grant(st.lease, pr.max) \in {0, 1} /\ Grant(lease, pr.max) \in {0, 1}
    BY KnownTypes
  <1> HIDE DEF lease
  <1>9. st.iteration >= pr.max /\ WakesForced(s, r) =>
            /\ ~round.force /\ Ordinary(round) /\ BadStop(r) /\ IssuesLease(s, r) /\ r = round
    <2>1. SUFFICES ASSUME st.iteration >= pr.max, WakesForced(s, r)
                   PROVE  ~round.force /\ Ordinary(round) /\ BadStop(r) /\ IssuesLease(s, r) /\ r = round
      OBVIOUS
    <2>2. ~round.force
      BY <1>1, <2>1 DEF WakesForced
    <2>3. Ordinary(round)
      BY <1>1, <1>3, <2>1, <2>2, KnownTypes DEF RoundOK
    <2>4. r.action \notin {"run", "fix"}
      BY <1>1, <2>3 DEF Ordinary
    <2>5. BadStop(r) /\ IssuesLease(s, r)
      BY <2>1, <2>4 DEF WakesForced, Escalates, StopsNow, RepeatedFailure, AgentFailed
    <2> QED
      BY <1>1, <2>2, <2>3, <2>5 DEF BadStop
  <1>10. ASSUME st.iteration >= pr.max, ~SuccessStop(r), ~NeutralStop(r), ~OrdinaryProgress(s, r, p)
        PROVE  Weight(next, pr.max) + Grant(lease, pr.max) <= Weight(round, pr.max) + Grant(st.lease, pr.max)
    <2>1. s.lease.max # r.max => Grant(st.lease, pr.max) = 1
      BY <1>1, <1>2, <1>3, KnownTypes DEF Grant, RoundOK
    <2>2. ~IssuesLease(s, r) /\ ~r.force => Grant(lease, pr.max) <= Grant(st.lease, pr.max)
      BY <1>2, <1>4, <1>8, <1>10, <2>1
    <2>3. CASE round.force /\ ~round.started
      <3>1. Weight(next, pr.max) = 0
        BY <1>1, <1>6, <1>8, <2>3 DEF WakesForced
      <3>2. Weight(round, pr.max) = 1
        BY <2>3 DEF Weight
      <3> QED
        BY <1>8, <3>1, <3>2
    <2>4. CASE round.force /\ round.started
      <3>1. Weight(next, pr.max) = 0
        BY <1>1, <1>6, <1>8, <2>4 DEF WakesForced
      <3>2. ForcedAgentRan(r)
        <4>1. round.action \in Execution /\ round.action # "stop"
          BY <1>3, <2>4 DEF RoundOK, Execution
        <4>2. r = round
          BY <1>1, <1>3, <4>1 DEF RoundOK
        <4> QED
          BY <2>4, <4>1, <4>2 DEF ForcedAgentRan
      <3>3. ~IssuesLease(s, r)
        BY <1>1, <2>4 DEF IssuesLease
      <3>4. Grant(lease, pr.max) <= Grant(st.lease, pr.max)
        <4>1. CASE /\ s.lease.status = "issued" /\ lease.status = "consumed"
                   /\ lease.reason = s.lease.reason /\ lease.max = s.lease.max
          BY <1>2, <4>1 DEF Grant
        <4> QED
          BY <1>2, <1>4, <1>8, <1>10, <2>1, <3>2, <3>3, <4>1
      <3> QED
        BY <1>8, <3>1, <3>4
    <2>5. CASE ~round.force /\ WakesForced(s, r)
      <3>1. Ordinary(round) /\ BadStop(r) /\ IssuesLease(s, r) /\ r = round
        BY <1>10, <1>9, <2>5
      <3>2. StopReason(s, r) = "round-budget-exhausted"
        BY <1>10, <3>1 DEF Ordinary, BadStop, NeutralStop, StopReason
      <3>3. lease = [reason |-> "round-budget-exhausted", max |-> r.max, status |-> "issued"]
        BY <1>1, <1>4, <2>5, <3>1, <3>2
      <3>4. CASE r.max = pr.max
        <4>1. Grant(lease, pr.max) = 0
          BY <3>3, <3>4 DEF Grant
        <4>2. Grant(st.lease, pr.max) = 1
          BY <1>2, <1>8, <3>1, <3>2, <3>4 DEF Grant, IssuesLease, LeaseMatches, Boundary
        <4> QED
          BY <1>8, <4>1, <4>2
      <3>5. CASE r.max # pr.max
        <4>1. Weight(round, pr.max) = 1
          BY <1>1, <2>5, <3>5 DEF Weight
        <4>2. Grant(st.lease, pr.max) = 1
          BY <1>1, <1>2, <1>3, <3>5, KnownTypes DEF Grant, RoundOK
        <4> QED
          BY <1>8, <4>1, <4>2
      <3> QED
        BY <3>4, <3>5
    <2>6. CASE ~round.force /\ ~WakesForced(s, r)
      <3>1. ~IssuesLease(s, r)
        BY <2>6 DEF WakesForced, Escalates, IssuesLease
      <3>2. Weight(next, pr.max) = 0
        BY <1>6, <1>8, <2>6
      <3> QED
        BY <1>1, <1>8, <2>2, <2>6, <3>1, <3>2
    <2> QED
      BY <2>3, <2>4, <2>5, <2>6
  <1>11. \/ st.iteration < pr.max
         \/ /\ SuccessStop(r) \/ NeutralStop(r) \/ OrdinaryProgress(s, r, p)
            /\ Weight(next, pr.max) = 0
         \/ Weight(next, pr.max) + Grant(lease, pr.max) <= Weight(round, pr.max) + Grant(st.lease, pr.max)
    <2>1. CASE st.iteration < pr.max
      BY <2>1
    <2>2. CASE st.iteration >= pr.max
      <3>1. SuccessStop(r) \/ NeutralStop(r) \/ OrdinaryProgress(s, r, p) => Weight(next, pr.max) = 0
        BY <1>6, <1>8, <1>9, <2>2 DEF BadStop, OrdinaryProgress, Execution
      <3> QED
        BY <1>10, <2>2, <3>1
    <2> QED
      BY <2>1, <2>2, KnownTypes
  <1>12. NextIteration(s, r) # st.iteration => Weight(next, pr.max) = 0
    BY <1>6, <1>7, <1>8
  <1> QED
    BY <1>5, <1>6, <1>11, <1>12 DEF lease

\* What a summary leaves: the facts of the state it writes and of the round.
LEMMA SummariseTypes ==
    ASSUME KInv, round \in BusyRounds, round.phase = "summary", NEW p \in Readings
    PROVE  p \in PullRequests /\ Withdrawn(pr) \in PullRequests /\ Withdrawn(pr).max = pr.max
  <1>1. pr \in PullRequests /\ round.seen \in Seen
    BY DEF KInv, LoopType, BusyRounds
  <1>2. round.seen.tasks \in Nat /\ round.seen.criteria \in Nat /\ round.seen.total \in Nat
    BY <1>1 DEF Seen
  <1>3. [pr EXCEPT !.tasks = round.seen.tasks, !.criteria = round.seen.criteria, !.total = round.seen.total]
          \in PullRequests
    <2> DEFINE t == round.seen.tasks  c == round.seen.criteria  n == round.seen.total
    <2>1. t \in Nat /\ c \in Nat /\ n \in Nat
      BY <1>2
    <2> HIDE DEF t, c, n
    <2>2. [pr EXCEPT !.tasks = t, !.criteria = c, !.total = n] \in PullRequests
      BY <1>1, <2>1 DEF PullRequests
    <2> QED
      BY <2>2 DEF t, c, n
  <1>4. Withdrawn(pr) \in PullRequests /\ Withdrawn(pr).max = pr.max
    BY <1>1 DEF Withdrawn, PullRequests
  <1> QED
    BY <1>1, <1>3, <1>4 DEF Readings

\* The summary counts the round, and wakes a forced one for a lease at most.
LEMMA SummariseKeeps ==
    ASSUME KInv, Summarise, UNCHANGED around
    PROVE  KInv'
  <1>1. round.phase = "summary" /\ facts' = facts /\ pending' = pending /\ asked' = asked
    BY DEF Summarise
  <1>2. round \in BusyRounds /\ st \in States /\ pr \in PullRequests /\ round # Idle
    BY <1>1, IdleRound DEF KInv, LoopType
  <1>3. PICK p \in Readings :
          LET r == Settled(round, p)
              s == Known(st, p)
          IN  /\ pr' = IF p = pr THEN Withdrawn(pr) ELSE pr
              /\ st' = NextState(s, r, p)
              /\ round' = IF SuccessStop(r) \/ WakesForced(s, r)
                          THEN [r EXCEPT !.phase = "publish"] ELSE Idle
              /\ crossed' = IF SuccessStop(r) \/ NeutralStop(r) \/ OrdinaryProgress(s, r, p)
                            THEN 0 ELSE crossed
    BY DEF Summarise
  <1> DEFINE r == Settled(round, p)
             s == Known(st, p)
             next == IF SuccessStop(r) \/ WakesForced(s, r) THEN [r EXCEPT !.phase = "publish"] ELSE Idle
  <1>4. p \in PullRequests /\ pr' \in PullRequests /\ pr'.max = pr.max
    BY <1>1, <1>2, <1>3, SummariseTypes
  <1>5. /\ r \in BusyRounds
        /\ \/ r = round /\ (round.reason = "tasks-complete" => ~(Open(p) > 0))
           \/ /\ round.reason = "tasks-complete"
              /\ \E why \in {"deterministic-gates-pending", "tasks-changed"} :
                    r = [round EXCEPT !.action = "wait", !.reason = why]
    BY <1>2, SettledType
  <1>6. s \in States /\ s.iteration = st.iteration /\ s.lease = st.lease /\ s.verification = st.verification
    BY <1>2, <1>4, KnownType
  <1>7. st' \in States /\ st' = NextState(s, r, p)
    BY <1>3, <1>4, <1>5, <1>6, NextStateType DEF KInv
  <1>8. /\ NextLease(s, r, p).max <= round.max
        /\ Weight(next, pr.max) = 1 => ~SuccessStop(r) /\ WakesForced(s, r)
        /\ NextIteration(s, r) # st.iteration => Weight(next, pr.max) = 0
        /\ \/ st.iteration < pr.max
           \/ /\ SuccessStop(r) \/ NeutralStop(r) \/ OrdinaryProgress(s, r, p)
              /\ Weight(next, pr.max) = 0
           \/ Weight(next, pr.max) + Grant(NextLease(s, r, p), pr.max)
                 <= Weight(round, pr.max) + Grant(st.lease, pr.max)
    BY <1>1, <1>2, <1>4, <1>5, <1>6, SummaryPays
  <1>9. round' = next /\ (crossed' = 0 \/ crossed' = crossed)
        /\ (SuccessStop(r) \/ NeutralStop(r) \/ OrdinaryProgress(s, r, p) => crossed' = 0)
    BY <1>3
  <1>10. NextIteration(s, r) \in {st.iteration, st.iteration + 1}
    BY <1>6 DEF NextIteration
  <1>11. /\ st'.iteration = NextIteration(s, r) /\ st'.lease = NextLease(s, r, p)
         /\ st'.verification = NextVerification(s, r, p) /\ st'.open = Open(p)
    BY <1>7 DEF NextState
  <1>12. Told(st')
    <2>1. Told(s)
      BY <1>6 DEF KInv, Budgeted, Told
    <2> QED
      BY <1>4, <1>5, <1>6, <1>11, <2>1, VerificationType DEF Told
  <1>13. RoundOK(round, pr.max, st, pending, asked)
    BY <1>2 DEF KInv, Budgeted
  <1>14. next = Idle \/ (next \in BusyRounds /\ RoundOK(next, pr.max, st', pending, asked))
    <2>1. SUFFICES ASSUME next # Idle
                   PROVE  next \in BusyRounds /\ RoundOK(next, pr.max, st', pending, asked)
      OBVIOUS
    <2>2. next = [r EXCEPT !.phase = "publish"]
      BY <2>1
    <2>3. /\ next \in BusyRounds /\ next.phase = "publish" /\ next.max = r.max /\ next.reason = r.reason
          /\ next.started = r.started /\ next.action = r.action
      BY <1>5, <2>2 DEF BusyRounds
    <2> HIDE DEF next
    <2>4. r.max = round.max /\ r.started = round.started
      <3>1. CASE r = round
        BY <3>1
      <3>2. CASE \E why \in {"deterministic-gates-pending", "tasks-changed"} :
                    r = [round EXCEPT !.action = "wait", !.reason = why]
        BY <1>2, <3>2 DEF BusyRounds
      <3> QED
        BY <1>5, <3>1, <3>2
    <2>5. r.started => r = round
      BY <1>1, <1>5, <1>13, <2>4 DEF RoundOK, Execution
    <2>6. SuccessStop(r) => r = round /\ ~(Open(p) > 0)
      <3>1. \A why \in {"deterministic-gates-pending", "tasks-changed"} :
               r = [round EXCEPT !.action = "wait", !.reason = why] => r.reason # "tasks-complete"
        BY <1>2 DEF BusyRounds
      <3> QED
        BY <1>5, <3>1 DEF SuccessStop
    <2>7. SuccessStop(r) => st'.verification.status = "done" /\ st'.open = 0
      <3>1. SUFFICES ASSUME SuccessStop(r) PROVE st'.verification.status = "done" /\ st'.open = 0
        OBVIOUS
      <3>2. Open(p) = 0
        BY <1>4, <2>6, <3>1, OpenType
      <3>3. round.reason = "tasks-complete" /\ r.reason = "tasks-complete"
        BY <2>6, <3>1 DEF SuccessStop
      <3>4. st.verification.status = "done"
        BY <1>1, <1>13, <3>3 DEF RoundOK
      <3>5. NextVerification(s, r, p) = st.verification
        BY <1>6, <3>2, <3>3 DEF NextVerification
      <3> QED
        BY <1>11, <3>2, <3>4, <3>5
    <2>8. SuccessStop(next) <=> SuccessStop(r)
      BY <2>3 DEF SuccessStop
    <2>9. r.max <= pr.max /\ st'.lease.max <= r.max /\ (pending.kind = "forced" => asked >= 1)
      BY <1>8, <1>11, <1>13, <2>4 DEF RoundOK
    <2>10. r.started => r.action \in Execution
      BY <1>13, <2>5 DEF RoundOK
    <2> QED
      BY <2>3, <2>7, <2>8, <2>9, <2>10 DEF RoundOK
  <1>15. LoopType'
    BY <1>1, <1>4, <1>7, <1>9, <1>14, KnownTypes DEF KInv, LoopType
  <1>16. st'.lease.max <= pr.max
    <2>1. st'.lease.max \in Nat /\ round.max \in Nat /\ round.max <= pr.max
      BY <1>2, <1>7, <1>13, KnownTypes DEF States, Leases, RoundOK
    <2> QED
      BY <1>8, <1>11, <2>1, KnownTypes
  <1>17. crossed' > 0 => st'.iteration >= pr.max
    <2>1. SUFFICES ASSUME crossed' > 0 PROVE st'.iteration >= pr.max
      OBVIOUS
    <2>2. crossed' = crossed
      BY <1>9, <2>1
    <2>3. st.iteration >= pr.max
      BY <2>1, <2>2 DEF KInv, Budgeted
    <2> QED
      BY <1>10, <1>11, <2>3, KnownTypes
  <1>18. st'.iteration >= pr.max =>
            crossed' + Queued(pending) + Weight(next, pr.max) + Grant(st'.lease, pr.max) <= 1 + asked
    <2>1. SUFFICES ASSUME st'.iteration >= pr.max
                   PROVE  crossed' + Queued(pending) + Weight(next, pr.max) + Grant(st'.lease, pr.max) <= 1 + asked
      OBVIOUS
    <2>2. Queued(pending) <= asked
      BY <1>13, KnownTypes DEF RoundOK, Queued
    <2>3. /\ Queued(pending) \in {0, 1} /\ Weight(next, pr.max) \in {0, 1} /\ Grant(st'.lease, pr.max) \in {0, 1}
          /\ Weight(round, pr.max) \in {0, 1} /\ Grant(st.lease, pr.max) \in {0, 1}
      BY KnownTypes
    <2> HIDE DEF next, r, s
    <2>4. CASE st.iteration < pr.max
      <3>1. crossed = 0 /\ crossed' = 0
        BY <1>9, <2>4, KnownTypes DEF KInv, Budgeted
      <3>2. Weight(next, pr.max) = 0
        BY <1>8, <1>11, <2>1, <2>4, KnownTypes
      <3> QED
        BY <2>2, <2>3, <3>1, <3>2, KnownTypes
    <2>5. CASE /\ st.iteration >= pr.max
               /\ Weight(next, pr.max) + Grant(st'.lease, pr.max) <= Weight(round, pr.max) + Grant(st.lease, pr.max)
      <3>1. crossed + Queued(pending) + Weight(round, pr.max) + Grant(st.lease, pr.max) <= 1 + asked
        BY <2>5 DEF KInv, Budgeted
      <3> QED
        BY <1>9, <2>3, <2>5, <3>1, KnownTypes
    <2>6. CASE crossed' = 0 /\ Weight(next, pr.max) = 0
      BY <2>2, <2>3, <2>6, KnownTypes
    <2> QED
      BY <1>8, <1>9, <1>11, <2>4, <2>5, <2>6, KnownTypes
  <1> QED
    BY <1>1, <1>4, <1>9, <1>12, <1>14, <1>15, <1>16, <1>17, <1>18 DEF KInv, Budgeted

\* A round that ends without a summary, or after it, has nothing more to pay for.
LEMMA RoundEnds ==
    ASSUME KInv, LoopType', round' = Idle, st' = st, pr'.max = pr.max, crossed' = crossed, asked' = asked,
           Queued(pending') <= Queued(pending) + Weight(round, pr.max)
    PROVE  KInv'
  <1>1. Weight(Idle, pr.max) = 0
    BY IdleRound
  <1>2. st.iteration >= pr.max =>
           crossed + Queued(pending') + Weight(Idle, pr.max) + Grant(st.lease, pr.max) <= 1 + asked
    BY <1>1, KnownTypes DEF KInv, Budgeted
  <1> QED
    BY <1>2 DEF KInv, Budgeted

\* What follows a summary, and a summary that is lost.
LEMMA PublishKeeps ==
    ASSUME KInv, SummaryLost \/ Authorise \/ Dispatch, UNCHANGED around
    PROVE  KInv'
  <1>1. pr \in PullRequests /\ st \in States /\ pending \in [kind : Runs, gate : GateConclusions]
    BY DEF KInv, LoopType
  <1>2. CASE SummaryLost
    <2>1. pr' \in PullRequests /\ pr'.max = pr.max
      BY <1>1, <1>2 DEF SummaryLost, Withdrawn, PullRequests
    <2> QED
      BY <1>2, <2>1, RoundEnds, KnownTypes DEF SummaryLost, KInv, LoopType
  <1>3. CASE Authorise
    <2>1. pr.labels \cup {"automerge"} \in SUBSET PrLabels
      BY <1>1 DEF PullRequests, PrLabels
    <2>2. pr' \in PullRequests /\ pr'.max = pr.max
      BY <1>1, <1>3, <2>1 DEF Authorise, PullRequests
    <2> QED
      BY <1>3, <2>2, RoundEnds, KnownTypes DEF Authorise, Finished, KInv, LoopType
  <1>4. CASE Dispatch
    <2>1. pending' \in [kind : Runs, gate : GateConclusions]
      BY <1>4 DEF Dispatch, Waiting, Runs, GateConclusions
    <2>2. Weight(round, pr.max) = 1
      BY <1>4 DEF Dispatch, Weight
    <2>3. Queued(pending') <= Queued(pending) + Weight(round, pr.max)
      BY <2>2, KnownTypes
    <2> QED
      BY <1>4, <2>1, <2>3, RoundEnds DEF Dispatch, Finished, KInv, LoopType
  <1> QED
    BY <1>2, <1>3, <1>4

\* A dispatch without an answer gives its lease back; if it landed all the same,
\* the round it starts is one that no lease pays for.
LEMMA UnansweredKeeps ==
    ASSUME KInv, NEW landed \in BOOLEAN, DispatchUnanswered(landed), UNCHANGED around
    PROVE  KInv'
  <1>1. /\ round.phase = "publish" /\ ~SuccessStop(round) /\ round' = Idle
        /\ st' = IF st.lease.status = "issued" THEN [st EXCEPT !.lease.status = "deferred"] ELSE st
        /\ pending' = IF landed THEN Waiting("forced", "none") ELSE pending
        /\ asked' = IF landed THEN asked + 1 ELSE asked
        /\ pr' = pr /\ facts' = facts /\ crossed' = crossed
    BY DEF DispatchUnanswered, Finished
  <1>2. pr \in PullRequests /\ st \in States /\ pending \in [kind : Runs, gate : GateConclusions]
    BY DEF KInv, LoopType
  <1> DEFINE lease == [st.lease EXCEPT !.status = "deferred"]
  <1>3. lease \in Leases /\ lease.max = st.lease.max
    BY KnownTypes DEF Leases
  <1> HIDE DEF lease
  <1>4. /\ st' \in States /\ st'.lease.max = st.lease.max /\ st'.iteration = st.iteration
        /\ st'.verification = st.verification
    <2>1. CASE st.lease.status = "issued"
      <3>1. st' = [st EXCEPT !.lease = lease]
        BY <1>1, <2>1 DEF lease
      <3> QED
        BY <1>2, <1>3, <3>1 DEF States
    <2>2. CASE st.lease.status # "issued"
      BY <1>1, <1>2, <2>2
    <2> QED
      BY <2>1, <2>2
  <1>5. pending' \in [kind : Runs, gate : GateConclusions] /\ asked' \in Nat
    BY <1>1, <1>2, KnownTypes DEF Waiting, Runs, GateConclusions
  <1>6. LoopType'
    BY <1>1, <1>4, <1>5 DEF KInv, LoopType
  <1>7. Told(st') /\ st'.lease.max <= pr.max /\ (crossed > 0 => st'.iteration >= pr.max)
    BY <1>4 DEF KInv, Budgeted, Told
  <1>8. st'.iteration >= pr.max =>
           crossed + Queued(pending') + Weight(Idle, pr.max) + Grant(st'.lease, pr.max) <= 1 + asked'
    <2>1. SUFFICES ASSUME st.iteration >= pr.max
                   PROVE  crossed + Queued(pending') + Weight(Idle, pr.max) + Grant(st'.lease, pr.max) <= 1 + asked'
      BY <1>4
    <2>2. Weight(round, pr.max) = 1 /\ Weight(Idle, pr.max) = 0
      BY <1>1, IdleRound DEF Weight
    <2>3. crossed + Queued(pending) + Weight(round, pr.max) + Grant(st.lease, pr.max) <= 1 + asked
      BY <2>1 DEF KInv, Budgeted
    <2>4. /\ Queued(pending) \in {0, 1} /\ Queued(pending') \in {0, 1}
          /\ Grant(st.lease, pr.max) \in {0, 1} /\ Grant(st'.lease, pr.max) \in {0, 1}
      BY KnownTypes
    <2>5. CASE landed
      <3>1. asked' = asked + 1
        BY <1>1, <2>5
      <3> QED
        BY <2>2, <2>3, <2>4, <3>1, KnownTypes
    <2>6. CASE ~landed
      <3>1. asked' = asked /\ pending' = pending
        BY <1>1, <2>6
      <3> QED
        BY <2>2, <2>3, <2>4, <3>1, KnownTypes
    <2> QED
      BY <2>5, <2>6
  <1> QED
    BY <1>1, <1>6, <1>7, <1>8 DEF KInv, Budgeted

\* Every step of the loop keeps the invariant.
LEMMA LoopStep ==
    ASSUME KInv, [Next]_vars
    PROVE  KInv'
  <1>1. CASE UNCHANGED vars
    BY <1>1 DEF vars, KInv, LoopType
  <1>2. CASE Next
    <2>1. UNCHANGED around
      BY <1>2 DEF Next
    <2>2. CASE Edit \/ GateRuns \/ FactsChange \/ Wake \/ GateWakes \/ AskForced
      BY <2>1, <2>2, EditKeeps, AroundKeeps
    <2>3. CASE Evaluate \/ Agent \/ Summarise
      BY <2>1, <2>3, EvaluateKeeps, AgentKeeps, SummariseKeeps
    <2>4. CASE SummaryLost \/ Authorise \/ Dispatch
      BY <2>1, <2>4, PublishKeeps
    <2>5. CASE \E landed \in BOOLEAN : DispatchUnanswered(landed)
      BY <2>1, <2>5, UnansweredKeeps
    <2> QED
      BY <1>2, <2>2, <2>3, <2>4, <2>5 DEF Next, Turn
  <1> QED
    BY <1>1, <1>2

\* The inductive invariant of the loop.
THEOREM LoopInvariance == Spec => []KInv
  <1>1. Init => KInv
    <2>1. SUFFICES ASSUME Init PROVE KInv
      OBVIOUS
    <2>2. MaxTasks \in Nat /\ MaxIterations \in Nat \ {0}
      <3>1. around \in Surrounding /\ MaxTasks \in Nat
        BY <2>1, LoopAssumption DEF Init
      <3> QED
        BY <3>1 DEF Surrounding, MaxIterations
    <2>3. pr \in PullRequests /\ pr.max = MaxIterations
      <3>1. MaxIterations \in Nat
        BY <2>2
      <3> DEFINE n == MaxIterations
      <3> HIDE DEF n
      <3>2. pr = [tasks |-> MaxTasks, criteria |-> 0, total |-> MaxTasks, gate |-> "success",
                  labels |-> {}, route |-> "agent", enabled |-> TRUE, scoped |-> TRUE, max |-> n]
        BY <2>1 DEF Init, n
      <3>3. n \in Nat
        BY <3>1 DEF n
      <3> QED
        BY <2>2, <3>2, <3>3 DEF PullRequests, GateConclusions, PrLabels, Routes, n
    <2>4. facts \in Facts
      BY <2>1 DEF Init, Facts, JobFacts
    <2>5. FreshState \in States /\ FreshState.lease = NoLease /\ FreshState.iteration = 0
          /\ FreshState.verification = NoVerification
      <3>1. NoFailure \in Failures /\ NoVerification \in VerificationRecords /\ NoLease \in Leases
        BY DEF NoFailure, NoVerification, NoLease, Failures, VerificationRecords, Verifications, Leases, StopCauses
      <3> QED
        BY <3>1 DEF FreshState, States
    <2>6. NoRun \in [kind : Runs, gate : GateConclusions]
      BY DEF NoRun, Waiting, Runs, GateConclusions
    <2>7. LoopType
      BY <2>1, <2>3, <2>4, <2>5, <2>6 DEF Init, LoopType
    <2>8. ~(st.iteration >= pr.max) /\ ~(crossed > 0) /\ st.lease.max = 0
      BY <2>1, <2>2, <2>3, <2>5 DEF Init, NoLease
    <2>9. Told(st)
      BY <2>1, <2>5 DEF Init, Told, NoVerification
    <2> QED
      BY <2>1, <2>2, <2>3, <2>7, <2>8, <2>9 DEF Init, KInv, Budgeted
  <1> QED
    BY <1>1, LoopStep, PTL DEF Spec

\* The round budget is crossed once, and once more for every forced round that
\* no lease pays for (keepalive_loop.js, the recovery lease).
THEOREM BudgetCrossedOnceAlways == Spec => []BudgetCrossedOnce
  <1>1. KInv => BudgetCrossedOnce
    <2>1. SUFFICES ASSUME KInv PROVE crossed <= 1 + asked
      BY DEF BudgetCrossedOnce
    <2>2. CASE crossed > 0
      <3>1. crossed + Queued(pending) + Weight(round, pr.max) + Grant(st.lease, pr.max) <= 1 + asked
        BY <2>1, <2>2 DEF KInv, Budgeted
      <3> QED
        BY <2>1, <3>1, KnownTypes
    <2>3. CASE ~(crossed > 0)
      BY <2>1, <2>3, KnownTypes
    <2> QED
      BY <2>2, <2>3
  <1> QED
    BY <1>1, LoopInvariance, PTL

\* Merge is authorised only on the state of a verification that succeeded, and
\* that no summary has seen work reopened since (keepalive_loop.js).
THEOREM AuthorisedVerifiedAlways == Spec => AuthorisedVerified
  <1> DEFINE Step == pr'.labels # pr.labels /\ "automerge" \in pr'.labels \ pr.labels
                        => st.verification.status = "done" /\ st.open = 0
  <1>1. ASSUME KInv, [Next]_vars PROVE [Step]_vars
    <2>1. pr \in PullRequests
      BY <1>1 DEF KInv, LoopType
    <2>2. CASE Authorise
      <3>1. round.phase = "publish" /\ SuccessStop(round)
        BY <2>2 DEF Authorise
      <3>2. round # Idle
        BY <3>1, IdleRound
      <3> QED
        BY <1>1, <3>1, <3>2 DEF KInv, Budgeted, RoundOK
    <2>3. CASE pr'.labels \subseteq pr.labels \cup {"agents:paused", "needs-human", "agents:max-runs:0"}
      BY <2>3
    <2>4. CASE Edit
      <3>1. \/ pr'.labels = pr.labels
            \/ \E l \in {"agents:paused", "needs-human", "agents:max-runs:0"} :
                  pr'.labels = IF l \in pr.labels THEN pr.labels \ {l} ELSE pr.labels \cup {l}
        BY <2>1, <2>4 DEF Edit, PeopleEdit, PullRequests
      <3> QED
        BY <2>3, <3>1
    <2>5. CASE Turn /\ ~Edit /\ ~Authorise
      <3>1. CASE GateRuns
        BY <2>1, <2>3, <3>1 DEF GateRuns, PullRequests
      <3>2. CASE FactsChange \/ Wake \/ GateWakes \/ AskForced \/ Evaluate \/ Dispatch
                 \/ \E landed \in BOOLEAN : DispatchUnanswered(landed)
        BY <3>2 DEF FactsChange, Wake, GateWakes, AskForced, Evaluate, Dispatch, DispatchUnanswered
      <3>3. CASE Agent
        BY <2>1, <2>3, <3>3 DEF Agent, PullRequests
      <3>4. CASE Summarise \/ SummaryLost
        <4>1. pr' = pr \/ pr' = Withdrawn(pr)
          BY <3>4 DEF Summarise, SummaryLost
        <4> QED
          BY <2>1, <2>3, <4>1 DEF Withdrawn, PullRequests
      <3> QED
        BY <2>5, <3>1, <3>2, <3>3, <3>4 DEF Turn
    <2>6. CASE UNCHANGED vars
      BY <2>6
    <2> QED
      BY <1>1, <2>2, <2>4, <2>5, <2>6 DEF Next
  <1> QED
    BY <1>1, LoopInvariance, PTL DEF Spec, AuthorisedVerified
=============================================================================
