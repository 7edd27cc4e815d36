# Deliverable-Render in TLA+

The repository has two halves. A small Python package renders deliverables (an
HTML hub, a PowerPoint deck, a Word memo) from a structured evidence store. A
large automation layer of GitHub workflows, JavaScript and Python dispatches
coding agents on pull requests, keeps them moving, verifies what was merged and
repairs it. The automation has no database and no locks: its state lives in
labels, comments, statuses, artifacts, bodies and files on branches, which
many workflow runs read, think about, and write back. Nearly everything that
can go wrong goes wrong between such a read and such a write, or when the
answer to a write is lost. That is what these models are about.

## Inventory

| part | state | what is hard | modules |
| --- | --- | --- | --- |
| authority challenge ledger (`keepalive_authority_state.js`) | a file per pull request and an index per attempt on a branch | conditional PUTs, lost and late answers, expiry, dead runs | `AuthorityRecords`, `AuthorityLedger`, `SingleUseAuthority` |
| runner dispatch (`scripts/runner_lib/core.py`) | reservations and receipts in comments, a repository variable | no lock, ambiguous POSTs, retry tallies, two systems in step | `RunnerDispatch` |
| keepalive loop (`keepalive_loop.js`) | the state comment, labels, a waiting run | stale evaluations, lost forced rounds, budgets, merge authority | `KeepaliveDecision`, `KeepaliveLoop` |
| branch sync after a round (`keepalive_post_work.js`, `keepalive_state.js`) | the state comment of a trace | cancelled between an effect and its record, overwritten state | `BranchSync` |
| orchestrator gate (`keepalive_gate.js`, `keepalive_orchestrator_gate_runner.js`) | labels, run listings | listings taken one after the other, drafts | `OrchestratorGate` |
| instructions (`agents_pr_meta_keepalive.js`, `agents_pr_meta_orchestrator.js`, `keepalive_worker_gate.js`) | reactions on a comment | one comment, several deliveries | `InstructionDispatch` |
| choice of the agent (`agent_delegation_policy.js`, `agent_stall_rotation.js`) | records in comments, labels | stale limits, relabelling that fails | `Delegation` |
| calls for a person (`keepalive_loop.js`, `keepalive_challenge_due.js`) | attention and lease in the state comment, a label, the ledger | three writes that may part | `KeepaliveAttention` |
| belt (`belt_claim_reclaim.js`, `agents_belt_scan.js`, `runtime_ac_merge_guard.js`, workflows 71, 72, 73, 81) | a label on the issue, a pull request | reclaiming and merging on old readings | `BeltClaims` |
| API client (`github-api-with-retry.js`, `token_load_balancer.js`, `error_classifier.js`) | a registry of tokens in memory | repeated writes, exhausted tokens | `ApiClient` |
| verifier corrections (`verifier_correction_*.js`) | a journal in artifacts, issues, runs | replay, missing history, two lanes | `CorrectionEffects` |
| status of forks, agents guard (`gate-fork-status-publication.js`, `agents-guard*.js`) | a commit status | verdicts out of order, labels that change | `ForkStatus` |
| pull request body (`agents_pr_meta_update_body.js`, `post_completion_comment.js`) | the text between two markers | a write that causes the event that causes a write | `PullRequestBody` |
| verifier runs (`agents_verifier_context.js`, `verification_event.js`, `verifier_pending_execution.js`) | rows on the merged pull request | who asked a provider, and what became of it | `VerificationRuns` |
| source closure (`verifier_closure.js`, `verifier_ci_query.js`) | the issue | a job that is run again days later | `SourceClosure` |
| comments of the Gate (`comment-dedupe.js`, `gate-docs-only.js`) | marked comments | list-then-write by runs that cancel each other | `GateComments` |
| output publication (`src/deliverable_render/cli`) | the output path, temporary files | kills, links, other writers, cleanup failures | `OutputPublication`, `AtomicOutput` |
| the rest: see Not modelled | | | |

How they interact. An issue is claimed by the belt, whose worker opens a pull
request. Instructions and the end of a Gate wake the orchestrator gate and the
keepalive loop; a round of the loop evaluates the pull request, chooses an
agent, runs it behind a reservation of the runner dispatch, summarises into the
state comment, and leaves the branch to the branch sync. A round that failed on
a missing permission begins a challenge in the ledger, which the hourly sweep
signs and dispatches; only when that is confirmed is a person called. Merge is
authorised by a label; the belt's two merging jobs act on it. The verifier then
judges what was merged, asks for corrections, and closes the issue. All calls
pass the API client. The rendering commands stand alone and meet only in the
file system.

Each module has the state of the table as its variables and one action per
request, handler or step of the code; PROJECT.json maps every definition to its
lines. The comment at the head of a module says what it follows.

## How the modules are put together

`AuthorityLedger` extends `AuthorityRecords` and implements `SingleUseAuthority`
under the mapping at its end; `OutputPublication` implements `AtomicOutput`;
`KeepaliveLoop` extends `KeepaliveDecision`, the decision of one round as an
operator on what the round read. `RunnerDispatch` sees the ledger through one
variable per attempt, `auth`, whose values are the states of that attempt's
preparation; `KeepaliveAttention` and `SourceClosure` see their neighbours the
same way.

`MCPullRequest` and `MCServices` check several modules in one run. Those modules
share no state, so a behaviour picks one of them at the start (`part`) and its
variables are the cells `c1, c2, ...`; the others stand still. Each keeps its
own bounds, given in the `INSTANCE`; those of services that are proved about for every
bound are constants. This is a union of state spaces and not a
product. `MCAuthorityLedger`, `MCRunnerDispatch`, `MCOutputPublication` and
`MCKeepaliveLoop` hold symmetry sets and the surroundings that are followed.

### What the abstractions are

- A step is one request together with the checks made on the answer before. A
  read that several requests make up is one step where nothing in between can
  be told apart, and several where it can (the three listings of
  `OrchestratorGate`, the three readings of `BeltClaims`).
- A request that fails, whose answer is lost, or whose run is cancelled is an
  action or a disjunct with `Fault`, bounded by `MaxFaults`. A write whose
  answer is lost may have been carried out.
- Texts, hashes and times are members of small sets; what the code compares is
  compared, what it formats is left out.
- Fields such as `past`, `seen`, `spent` or `tally` count what the bounds and
  the properties need. No guard of a modelled action reads them, but for bounds.
- The reusable workflows that the repository calls but does not contain, GitHub,
  agents and people are external: they do what the code in `src/` relies on, in
  any order.

### AuthorityLedger and RunnerDispatch

`ledger` is the file of one pull request, `index[a]` the immutable file of an
attempt, `wire` the writes whose sender no longer waits, `call[p]` the function
process `p` is in with the record it has read, `run[a]` the progress of a
workflow run, `claims[a]` its signed claim, `pr` the pull request, `spent` and
`refunded` history. A PUT carries the blob sha it read; every write raises the
revision, so comparing records is comparing shas. Generations, 256 random bits
in the code, are numbers that are never drawn twice. Evidence that a worker
never started is `run = "ended"`. `Return` is every early return, failed read
and kill.

In `RunnerDispatch`, `comments` are the trusted marker comments, oldest first;
`wire` those whose client gave up; `fallback` the repository variable; `pc` and
`job` the place of each attempt in the commands and jobs and what it has read.
`Serial` says whether the attempts share a concurrency group, whose name falls
back to the run id when the event names no pull request
(agents-81-gate-followups.yml:53). `Late` says whether a comment may be stored
after its client gave up.

### OutputPublication

`dir` maps a path to who wrote the file under it or to what it links to,
`data[r]` and `temp` are the file of command `r` and its temporary name,
`step[r]` is the next system call. The user saves and removes files at any time;
while commands run links may vanish but not appear. `fsync` is not called by the
code and loss of power is not modelled.

## Runs

| run | module | what it checks | bounds |
| --- | --- | --- | --- |
| `AuthorityRaces` | `MCAuthorityLedger` | `SingleUse`, `GrantsAreSpent`, `NeverReissued`, `WorkNeverRefunded`, `ReleasedNeverSpent`, refinement of `SingleUseAuthority` | 2 attempts, a reporter, an updater, a lost answer, windows that end |
| `AuthorityMoves` | same | `ReceiptBacked`, `SpentReceiptMovesProperty` | 2 heads, lagging clocks, a preparation of the old format |
| `AuthorityLiveness` | same | `StrandedAuthorityFreed` under fairness | 1 attempt, 2 lost answers, 2 moves |
| `OutputPublication` | `MCOutputPublication` | `OutputsWhole`, `ExitTruth`, `InputsKeptProperty`, refinement of `AtomicOutput` | 2 commands, a path and a source it may link to |
| `DispatchRaces` | `MCRunnerDispatch` | `WorkIsBacked`, `RefundedNotPending`, `NewerOwnerKept` | 2 attempts without a group, 2 heads, a lost answer |
| `DispatchRetries` | same | `RetryWaits` | 3 runs in a group, limit 1; 2 once an answer is lost, late comments |
| `DispatchLateRefund` | same | violated, see Findings | 2 attempts, late comments |
| `LoopRounds` | `MCKeepaliveLoop` | `BudgetCrossedOnce`, `AuthorisedVerified` | five rough surroundings, 2 to 4 rounds |
| `LoopCompletion` | same | `StaleAuthorityWithdrawn`, `CompletionAuthorised`, `VerificationEndsOnceWorked` under fairness | two smooth surroundings, 4 and 6 rounds |
| `LoopNoPause` | same | violated, see Findings | failing agents, threshold 2, 5 rounds |
| `PullRequest` | `MCPullRequest` | see below | in `PullRequest.cfg` and the `INSTANCE`s |
| `Services` | `MCServices` | see below | in `Services.cfg` and the `INSTANCE`s |

Deadlock is checked where the system always has something to do (the loop); the
others come to rest: a run that is over, a pull request that nobody changes.

### What the properties of PullRequest and Services say

- `AskedOnce`, `OthersKept` (`BranchSync`): people are told once a round, the
  helper workflow is dispatched once a trace, unless a run was stopped between
  the call and its record; what others write into the state comment survives
  the runs that did not overlap the writing.
- `WithinLimits` (`OrchestratorGate`): the run cap holds although each run counts
  the others in three listings while they start; a draft is handed over once.
- `InstructedOnce` (`InstructionDispatch`): an instruction is handed out once,
  however often it is delivered, and done once on a head.
- `ChoiceStands` (`Delegation`): an agent that is chosen has no limit and no
  failed startup that still stands, whichever of the ways it was chosen in.
- `CallExplained`, `LeaseUsedOnce` (`KeepaliveAttention`): while the label calls
  for a person the note names the action and the ledger confirmed it; one stop
  is followed by one forced execution, and one more for each lease that is given
  back amiss (see Findings). Both quote the code's comments.
- `ActsAsLastSeen` (`BeltClaims`): a claim is taken back only if announced, stale
  and without a pull request, and a pull request is merged only without a hold
  and, by the gate's job, at the head it checked, green. What changed after the
  last reading of a run is the only excuse.
- `WrittenOnce`, `LimitsRespected` (`ApiClient`): a write is carried out once,
  however its answers were lost, and limits are respected and known.
- `CorrectedOnce` (`CorrectionEffects`): a finding gets one issue from one of two
  lanes, one dispatch, and one execution for each step.
- `GreenTrue`, `VerdictsInOrder` (`ForkStatus`): a success at the head is true of
  the labels and files it stands for, and no verdict replaces a newer one but to
  withdraw a success.
- `BodySettles` (`PullRequestBody`): after a change from outside the sync writes
  the body at most three times, and once more for each failed call.
- `EvaluatedOnce` (`VerificationRuns`): no provider is asked about an event again
  by an attempt that could know of the first, and a report is posted once unless
  it was recorded that the fate of the first is unknown.
- `ClosedAsJudged` (`SourceClosure`): an issue is closed for a verdict on the
  text it has, under a green CI of the merge, and with a receipt, whenever the
  closing job runs.
- `CommentsTrue` (`GateComments`): after an undisturbed run one comment says why
  checks were skipped, or none does, and a summary is of its head; there is one
  summary, and one more for each whose posting outlived its run.

And of the others: `SingleUse`, `NeverReissued`, `GrantsAreSpent`: one generation
pays for one attempt, whatever writes are in flight. `WorkNeverRefunded`,
`ReleasedNeverSpent`: refund and work exclude each other, in both orders.
`WorkIsBacked`: no worker without a stored reservation, nor on an unpaid
challenge. `NewerOwnerKept`: the record changes hands by a reservation only.
`RetryWaits` is stated on the comments and not on the counters the code keeps,
so that an error in the counters shows. With comments that are stored late it
holds of two attempts, which is what the run follows, and not of three: a
reservation that is stored after its run has ended becomes the newest record,
with the counters and the time of when it was sent. `BudgetCrossedOnce`: past the
budget one round succeeds, and one more for each forced round that no lease pays
for: people asked for it, its request had no answer, or it was under way when
the budget was raised. An ordinary round that gets on starts the count again.
`AuthorisedVerified`: merge is authorised on a verified, complete checklist.

### Why the bounds are enough

Two parties are enough for the races here, because each protocol compares what
one party read with what one other wrote; three runs are followed where one of
them cancels another or a counter needs it. Counters that matter have their
limits within the bounds (limit + 1 fruitless runs before the one that must
wait, a lineage that outgrows its limit, a body written four times if it would
not settle). `MaxFaults` is 1 or 2: the code has no handler that counts faults,
and every fault may strike at every request. For `VerificationRuns` attempts,
changes and faults share one bound of 4; with a fault beside 4 attempts and
changes the property holds as well (1.1 million states, on its own). For
`PullRequestBody` three changes were checked on their own (3.3 million states),
for `SourceClosure` two runs with two events (5.7 million). The code's constants
(24 hours, 30 minutes, 5 retries, 3 failures) are small numbers in the same
order. For what is proved, bounds do not matter.

### Fairness

`AuthorityLiveness`: the sweep runs hourly and calls the reporter again for each
ended attempt; its steps are strongly fair, since a call may end early any
number of times, and a request that is repeated for ever is answered in the end.
Attempts and updaters are not fair: a run may die at every step. The property
also asks that the pull request stays eligible from some time on.

`LoopCompletion`: weak fairness of the round in progress (GitHub runs a job that
is queued) and of `Wake`, the hourly sweep that dispatches the loop for every
eligible pull request. People, the Gate and other workflows are not fair.
`VerificationEndsOnceWorked` and `CompletionAuthorised` state in their
hypotheses what else they need.

## Findings

- `DispatchLateRefund`: after a reservation POST without an answer and one read
  that finds no record, `should_dispatch` gives the challenge back
  (core.py:1603-1612). The comment at core.py:1598-1602 wants that only for a
  "confirmed absence", lest there be "a live primary reservation and a reusable
  authority generation". If the server stores the comment after the read, exactly
  that pair exists. When a comment is stored before its client gives up, or
  never, the property holds (`DispatchRaces`).
- `LoopNoPause`: the status line of keepalive_loop.js:4399 counts failures
  "before pause", but the evaluation does not read the count, so the next
  ordinary round runs the agent again.

Met while modelling, and stated by no run, because the code says nothing else or
the models leave the case open:

- A verification attempt made at iteration zero does not count as one
  (keepalive_loop.js:3251), hence the hypothesis of `VerificationEndsOnceWorked`.
- A round with no agent to choose writes the default agent into the state comment
  (4777-4806), and the next one takes that for the current agent, before the
  backoff of which agent_delegation_policy.js:418-420 speaks has expired.
- An ordinary round past the budget that resolves a conflict counts as progress
  and drops the lease of the budget (keepalive_loop.js:4697-4753), after which
  one more forced round may cross it. The comments at 3220-3222 and 5346-5348
  speak of one crossing. A forced round under way when the budget is raised runs
  beside the one that the new budget's lease pays for. The attempt to prove
  `BudgetCrossedOnce` showed both; the property counts them.
- A forced run that does not start gives back whatever lease is issued, also one
  that it did not take and whose worker ran while its summary was lost
  (keepalive_loop.js:4711-4717), and so does a dispatch that was delivered but not
  answered (5371-5375). A later stop then issues another lease for the same
  boundary, which the comment at 5346-5348 excludes. The attempt to prove
  `LeaseUsedOnce`, which until then did not count the first case, showed it; it
  takes more rounds than the run has.
- `guardExistingEvent` looks at the newest attempt only: if an event names no
  predecessor, a newer attempt that is known to have asked nobody hides an older
  one whose evaluation is not resolved.
- A pending row whose step lost its answer can not be reconciled later; the event
  stays shut, which is safe.
- A closing job that is run again uses its own run's verdict, even if a newer run
  judged otherwise, and closes an issue that a person has opened again.
- The conveyor (workflow 73) merges without the head it checked: what is pushed
  after its check is merged under the words "after Gate success"; only the gate's
  job (81) binds the head. The worker looks for the claim's label before it opens
  the pull request, so that a sweep in between leaves one without a claim.
- The post of a cancelled Gate run may create a second summary that no later run
  removes.
- `post_completion_comment.js:20` and `agents_pr_meta_update_body.js:550` name
  different markers for the same comment. A criterion with the text of a task is
  ticked with it by the next sync.
- A run refused by the orchestrator gate counts against the cap for five minutes,
  and a listing that fails counts too few.

## Proofs

All statements hold for every choice of the constants that meets the named
assumptions.

`AuthorityLedgerProofs`: `IInv` is inductive. Type correctness and single use
are not by themselves, because a write that was computed long ago may land at
any moment. The invariant therefore speaks of every computed pair of an old and
a new record, in a call or on the wire: it is one of the six changes in
`WriteOK`. A write takes effect only where the ledger is still the old record,
so every change of the ledger is one of the six. Generations never fall along
such a pair, and what is spent is at or below the ledger's generation, below it
while the ledger is on offer; hence no spent generation returns. `CallInv` says
what a call's snapshot looks like at each step, so that the pairs computed from
it are again in `WriteOK`. One lemma per action establishes `IInv'` and the step
of `SingleUseAuthority` together. Theorems: `Invariance`, `TypeCorrect`,
`NeverReissuedAlways`, `SingleUseAlways`, `GrantsAreSpentAlways`, `Refinement`.
Assumptions: process sets are disjoint, null is no record, `Window` is positive
and `LineageLimit` at least 2.

`OutputPublicationProofs`: `PInv` says, for each step of a command, whether its
file is whole, named and published (`Progress`), that a file of a command under
any path is published (`Named`), and that the comparison of output and inputs is
still true before the commit (`Compared`): links are flat and only vanish.
Theorems: `PublicationInvariance`, `OutputsWholeAlways`, `ExitTruthAlways`,
`InputsKeptAlways`, `PublicationRefinement`. Assumption: users, commands, paths
and marks are different things.

`BeltClaimsProofs`: `ActsAsLastSeen` for every window and every bound. It is not
inductive, because it speaks of what was taken or merged and not of what a run
knows. `Inv` adds what a run may rely on between its last reading and its last
request unless it was marked as overtaken: a claim that is judged a third time
was announced (`Announced`); the third reading of the claim and of the mentions
stands while the sweep reads the links (`HalfRead`), and then the whole of it
(`Judged`); a guarded job's look at the labels and the gate's look at the checks
stand until the job is marked (`Unheld`, `Bound`). One lemma per action, no
assumption on a constant.

`MCPullRequestProofs`: a behaviour of `MCPullRequest` that follows the belt is one
of `BeltClaims`, so the theorem holds of the run's property as it stands. Five more
handlers are proved here, each by an invariant of its own under the part that is
followed, and one lemma per action:

- `SyncInv` (`AskedOnceAlways`, `OthersKeptAlways`): what was posted and dispatched
  is in the state comment, about to be put there, or lost with a stopped run
  (`NoticeOwed`, `HelperOwed`), and what a run has read of that comment is what it
  says, but for what others wrote meanwhile (`KnowsNote`).
- `AdmissionInv` (`WithinLimitsAlways`): of any runs that have looked, one has
  counted all the others (`LastCountsAll`): the last to look. For the set of runs
  that are let through, that one has counted all of them but itself, and fewer
  than the cap (`UnderCap`): whoever has looked is in progress and is listed by
  one that looks later. One run is about to post a disposition that is not there
  (`OneNotice`).
- `DispatchInv` (`InstructedOnceAlways`): a late delivery that saw the reactions saw
  the lock; a delivery starts a run for each failed try, and one more once it is
  past the dispatch (`StartedOnce`, by the cardinality of its places in the
  sequence of runs); the worker never holds what was recorded for its head.
- `AttentionInv` (`CallExplainedAlways`, `LeaseUsedOnceAlways`): a lease is one token,
  free, being given out, asked for, owed by a run that has not started its
  worker, or used; tokens never exceed one and those given back amiss
  (`LeaseKept`). The round that calls a person has written the action before it
  sets the label and owns the receipt; while the label stands, every other round
  only hands on what is written (`CallKept`).
- `DelegationInv` (`ChoiceStandsAlways`): every branch of `decideNextAgent` names an
  agent of the list it made of those nothing stands against (`DecidedAgent`), for
  any number of agents and any ranking; the records do not change between the
  choice and the dispatch but by limits and failures that end.

Assumption: orchestrator runs are finitely many, caps are numbers, 0, which
stands for a run of another pull request, is no delivery, and the registry and
the rankings are sequences of names.

`AuthorityRefundProofs`: a second invariant over the same computed pairs, `RInv`.
A receipt enters the ledger with an index behind it, and an index is written once
(`Sound`, `Known`). An attempt prepares once: its preparation is still to come
(`Pristine`, at most one on the wire), in the ledger, spent, or over for good
(`Over`), and only the last goes with a release (`Trail`). Theorems:
`RefundInvariance`, `WorkNeverRefundedAlways`, `ReleasedNeverSpentAlways`,
`ReceiptBackedAlways`, `SpentReceiptMovesAlways`. No further assumptions.

`RunnerDispatchProofs`: comments are added and replaced by whoever comes last, so
`Inv` is about the whole sequence: an attempt reserves at most once, a receipt
replaces only a receipt of its attempt (`Good`), and what is still on the wire
will fit when it is stored (`StoreOK`). What a reader takes for the record is then
in the newest reservation or its newest receipt, and a closed reservation stays
closed. `PlaceAt` ties that to the place of an attempt and to its preparation: it
gives back only what it never reserved, or has closed. Theorems:
`DispatchInvariance`, `WorkIsBackedAlways`, `NewerOwnerKeptAlways`, and
`RefundedNotPendingAlways` if comments are stored before their client gives up;
without that the code violates it (`DispatchLateRefund`). On the same condition
and within a concurrency group, `RetryWaitsAlways`. `SerialInv` says that one
attempt is active at a time, so that what it has read is what the comments still
say when it posts (`UpToDate`), and that the counters of the newest reservation
are at least the number of completions in the streak that ends with it, up to
limit + 1 (`Counted`, `Tally`). A new comment changes what became of the newest
reservation at most (`Grown`), so it is enough that a completion counts itself
once (`CompletionCounts`) and a reservation on the same head takes the counters
over (`ReservationCounts`).

`KeepaliveLoopProofs`: `KInv` is an account of the budget. Past it, the successful
runs, a forced round that waits (`Queued`), a round that may still run an agent or
have one run (`Weight`), and the lease unless it was given out (`Grant`) are
together at most one more than the forced rounds that no lease pays for. An
ordinary round past the budget runs no agent but to resolve a conflict, and stops
for nothing but the budget or an emptied checklist (`DecidedPastBudget`, for every
reading). `RoundOK` adds what a round that may authorise the
merge rests on. Theorems: `LoopInvariance`, `BudgetCrossedOnceAlways`,
`AuthorisedVerifiedAlways`. Assumption: there are tasks, and surroundings are
surroundings; budgets, thresholds and their combinations are arbitrary.

`MCServicesProofs`: seven services inside the specification that is checked.
`ClosureInv`: between its last reading and its last request a closing job knows
the issue's text and the result of the CI unless it was marked as overtaken; a
plan is for the text that was judged (`ClosureRunOK`). `GateInv`: identifiers of
comments are unique and never come back (`Sane`), what a request names is what it
was made for (`Fitting`), and what a run has seen of the comments is still true of
them at each of its steps, unless a request of a cancelled run landed in between.
Theorems: `ClosedAsJudgedAlways`, `CommentsTrueAlways`. `ClientInv`: while the
registry is fresh it knows that a token which refused the call has nothing left
(`RefusalsKnown`), and a call that may be sent again has done nothing but what is
blurred (`WriteKept`). Theorems: `WrittenOnceAlways`, `LimitsRespectedAlways`.
`EffectsInv`: the lock has one holder, an execution or the label lane
(`LockHeld`); who is about to create or dispatch is the first (`IssueOnce`,
`DispatchOnce`), because what was dispatched is in the journal before and what was
created shows to who looks; of the pilots one is admitted at a time, and one that
is cleared for a step is the only one that has worked on it (`PilotsOK`). Theorem:
`CorrectedOnceAlways`. `ForkInv`: an attempt that ended stays as it is until it is
followed by another (`Later`), so that what a publisher read, read again and found
unchanged is what the run showed in between; what is about to be written is true of
the newest attempt there is (`Written`), because the jobs about a head take turns
and nobody else writes the publisher's context meanwhile (`LooksAt`); and while
nothing failed, a success for other labels than there are is noticed by a job that
waits, a run that has ended or the job at work (`Noticed`), which is why a waiting
job may be replaced. Theorems: `GreenTrueAlways`, `VerdictsInOrderAlways`.
`BodyInv`: the writes since the last change and those that still lie ahead (`Ahead`:
of the job, from what it has read, and of the edits its write causes) are never more
than three and the calls that failed. A write takes one away, since a run that reads
what holds now leaves the body settled but for a run of the contract that its edit
cancels (`FreshBody`); comments that could not be read add one. Theorem:
`BodySettlesAlways`. `VerifierInv`: every row says what its attempt did
(`RowOK`), so that an attempt with a row that it asked nobody, and all that follow
a pending one that GitHub's account of its run settles, have ended without asking
(`Harmless`, `BarredHarmless`); and whose report is posted or may yet be
(`Posting`) recorded itself as pending before, so that the next one at the same
report finds it, and is only ready when its fate is recorded as unknown
(`PostedOnce`, `ReadyAlone`). Theorem: `EvaluatedOnceAlways`. Assumption: the
given client is no registered token, the least number of calls is positive and
within the limit, and the bound on events is a number.

Only model-checked: liveness (`StrandedAuthorityFreed`, `CompletionAuthorised`,
`StaleAuthorityWithdrawn`, `VerificationEndsOnceWorked`), which is beyond the proof
system, and `RetryWaits` for two attempts with late comments. No module that is proved about reaches a RECURSIVE
operator, and no theorem needs induction over data.

## Not modelled

- The attempt presence inventory of the ledger (1001-1261) and the replay lookups
  over its commit history (235-281): checkpointed scans whose answers the models
  take as given.
- Sync pull request leases, auto-pilot transitions, terminal dispositions, merge
  manager, detection of changed paths: decisions on one snapshot with unit tests
  upstream and no state of their own.
- Store validation, HTML, deck and memo rendering: pure functions of a document.
  The document is read once to validate and once to render; a save in between
  is rendered without validation.
- Prompts, parsing of agents' output, issue text, reports, metrics, LangChain
  scripts, signatures (a dispatched claim is authentic), vendored packages.
- In the modelled parts: explicit single-store callers and provider backoff
  markers of the runner dispatch; deterministic gates of the loop, which no caller
  enables; comparison of expected events, legacy events and truncated comments of
  the verifier; 403 answers to comments on pull requests from forks; the
  correction kernel's production switch, which is off
  (`requireDeployedCorrectionEffects` always throws).

What would come next: `RunnerDispatch` composed with `AuthorityLedger` in one
specification; the attempt presence inventory against "absence was true of one
moment during the call".
